---- MODULE Spec2Model ----
(***************************************************************************)
(* Processing State store (src/triage_state.py) and the ticket submission  *)
(* handlers of the web layer (src/web/server.py, src/jira_client.py).      *)
(*                                                                         *)
(* A JSON document is a record with one field per key the code reads or    *)
(* writes; an optional key is a sequence of length 0 (key missing) or 1.   *)
(* A state file is absent, corrupt (unparseable or not an object) or a     *)
(* dict.  _utc_now() is the variable clock, which every write advances.    *)
(***************************************************************************)
EXTENDS Integers, Sequences, FiniteSets, TLC

VARIABLES
    store,      \* email_id -> state file under out/triage_state
    clock,      \* the value the next _utc_now() returns
    prev,       \* history: the store before the last state operation
    last,       \* history: the last state operation and its arguments
    req,        \* request slot -> the handler invocation running in it
    issues,     \* the tracker: the issues create_issue_v2 has created, in order
    last_call,  \* history: the last create_issue_v2 call made, and the status its message had
    w,          \* writer -> the state operation it is in the middle of
    tri,        \* the message being triaged by triage_core, and what came of it
    triage,     \* email_id -> Triage Artifact file under out/triage
    job,        \* the batch triage job (JOBS holds one)
    ai_out,     \* the collaborator response being handled, and what came of it
    fjob,       \* the Gmail fetch or fetch-and-parse job, and the mail files under out/emails
    env,        \* READ_ONLY of the server process and gmail_authed of the session
    mcp         \* the Jira MCP server: the lines left on stdin and the lines written to stdout

vars ==
    <<store, clock, prev, last, req, issues, last_call, w, tri, triage, job, ai_out, fjob,
      env, mcp>>

\* ------------------------------------------------------------------ bounds

\* Writes per behaviour (values of _utc_now handed out).
MaxClock == 3

\* Concurrent handler invocations.
MaxReqs == 1

\* Issues the tracker creates per behaviour.
MaxIssues == 1

\* State writes made by request handlers per behaviour.
MaxWrites == 2

\* The largest limit posted to /api/triage/batch/start.
MaxLimit == 3

\* The most messages a fetch is asked for, and the most the mailbox lists.
MaxFetch == 2

\* ------------------------------------------------------------- documents

None == <<>>

Some(x) == <<x>>

EmptyDoc ==
    [status |-> None, reason |-> None, processed_at |-> None, ai |-> None,
     jira_draft |-> None, jira |-> None, reply_draft |-> None,
     email_id |-> None, updated_at |-> None]

AbsentFile == [kind |-> "absent", doc |-> EmptyDoc]

CorruptFile == [kind |-> "corrupt", doc |-> EmptyDoc]

\* A corrupt file cut off in mid-write: json.load raises on it, though its bytes
\* still spell the beginning of a processed document.
GarbledFile ==
    [kind |-> "corrupt",
     doc |-> [EmptyDoc EXCEPT !.status = Some("processed"), !.processed_at = Some(0)]]

DictFile(d) == [kind |-> "dict", doc |-> d]

\* str.strip() on the strings of the model: the padded spellings lose their blanks.
strip(s) ==
    CASE s = " done " -> "done"
      [] s = " ignore " -> "ignore"
      [] s = " no action needed " -> "no action needed"
      [] OTHER -> s

\* Raw status strings a stored document may hold (canonical, legacy, padded, unknown).
RawStatuses ==
    {"pending", "ignore", "processed", "todo", "skip", "done", "jira",
     "", " done ", "Processed"}

\* status arguments of set_status.
StatusInputs ==
    {"pending", "ignore", "processed", "todo", "skip", "done", "jira",
     "", " ignore ", "Processed", "later"}

Reasons == {"", "manual"}

Decisions == {"ignore", "pending", "processed"}

AiReason == "ai reason"

AiRaws == {None, Some("raw")}

Keys == {"FB-1", "FB-2"}

Drafts ==
    {[issue_type_name |-> "Bug", summary |-> "s", description |-> "d", labels |-> <<"l">>],
     [issue_type_name |-> "Task", summary |-> "", description |-> "", labels |-> <<>>]}

\* What generate_reply_openai_compatible returns: language (or "unknown"), a
\* non-empty reply, and a Chinese rendering that is empty for a Chinese mail.
ReplyOutputs ==
    {[language |-> "ja", reply |-> "r", reply_zh |-> "zh"],
     [language |-> "unknown", reply |-> "r2", reply_zh |-> ""]}

\* ---------------------------------------------------------- triage_state

\* load_state handing back whatever it can make of the file, corrupt or not.
load_state_lenient(st, email_id) ==
    IF st[email_id].kind \in {"dict", "corrupt"} THEN Some(st[email_id].doc) ELSE None

load_state(st, email_id) ==
    IF st[email_id].kind = "dict" THEN Some(st[email_id].doc) ELSE None

\* `load_state(...) or {}`
or_empty(state) ==
    IF state = None THEN EmptyDoc ELSE state[1]

\* save_state keeping the keys the file has and the dict to save lacks.
save_state_merge(st, email_id, state, now) ==
    LET disk == IF st[email_id].kind = "dict" THEN st[email_id].doc ELSE EmptyDoc
        merged == [k \in DOMAIN state |-> IF state[k] = None THEN disk[k] ELSE state[k]]
    IN  [st EXCEPT ![email_id] =
            DictFile([merged EXCEPT
                !.email_id = IF @ = None THEN Some(email_id) ELSE @,
                !.updated_at = Some(now)])]

\* save_state with a path that does not depend on the id: one file for all.
save_state_one_path(st, email_id, state, now) ==
    [b \in DOMAIN st |->
        DictFile([state EXCEPT
            !.email_id = IF @ = None THEN Some(email_id) ELSE @,
            !.updated_at = Some(now)])]

save_state(st, email_id, state, now) ==
    [st EXCEPT ![email_id] =
        DictFile([state EXCEPT
            !.email_id = IF @ = None THEN Some(email_id) ELSE @,
            !.updated_at = Some(now)])]

\* processing_status answering the legacy default for a missing document.
processing_status_todo_default(state) ==
    IF state = None \/ state[1] = EmptyDoc
    THEN "todo"
    ELSE LET raw == IF state[1].status = None THEN "" ELSE state[1].status[1]
             s == IF strip(raw) = "" THEN "pending" ELSE strip(raw)
         IN  IF s \in {"pending", "processed", "ignore"} THEN s
             ELSE IF s = "todo" THEN "pending"
             ELSE IF s \in {"done", "jira"} THEN "processed"
             ELSE IF s = "skip" THEN "ignore"
             ELSE "pending"

processing_status(state) ==
    IF state = None \/ state[1] = EmptyDoc
    THEN "pending"
    ELSE LET raw == IF state[1].status = None THEN "" ELSE state[1].status[1]
             s == IF strip(raw) = "" THEN "pending" ELSE strip(raw)
         IN  IF s \in {"pending", "processed", "ignore"} THEN s
             ELSE IF s = "todo" THEN "pending"
             ELSE IF s \in {"done", "jira"} THEN "processed"
             ELSE IF s = "skip" THEN "ignore"
             ELSE "pending"

\* set_status stamping processed_at on every write to processed.
set_status_restamp(st, email_id, status, reason, now) ==
    LET existing == or_empty(load_state(st, email_id))
        s == strip(status)
        e1 == IF s \in {"todo", "pending"} THEN [existing EXCEPT !.status = Some("pending")]
              ELSE IF s \in {"skip", "ignore"} THEN [existing EXCEPT !.status = Some("ignore")]
              ELSE IF s \in {"done", "jira", "processed"}
                   THEN [existing EXCEPT !.status = Some("processed"), !.processed_at = Some(now)]
              ELSE [existing EXCEPT !.status = Some("pending")]
        e2 == IF reason # "" THEN [e1 EXCEPT !.reason = Some(reason)] ELSE e1
    IN  save_state(st, email_id, e2, now)

\* set_status leaving the stored status alone when the value is in no branch.
set_status_keeps_unknown(st, email_id, status, reason, now) ==
    LET existing == or_empty(load_state(st, email_id))
        s == strip(status)
        e1 == IF s \in {"todo", "pending"} THEN [existing EXCEPT !.status = Some("pending")]
              ELSE IF s \in {"skip", "ignore"} THEN [existing EXCEPT !.status = Some("ignore")]
              ELSE IF s \in {"done", "jira", "processed"}
                   THEN [existing EXCEPT
                            !.status = Some("processed"),
                            !.processed_at = IF @ = None THEN Some(now) ELSE @]
              ELSE existing
        e2 == IF reason # "" THEN [e1 EXCEPT !.reason = Some(reason)] ELSE e1
    IN  save_state(st, email_id, e2, now)

\* set_status storing the value it was given, alias or not.
set_status_raw(st, email_id, status, reason, now) ==
    LET existing == or_empty(load_state(st, email_id))
        s == strip(status)
        e1 == IF s \in {"done", "jira", "processed"}
              THEN [existing EXCEPT
                       !.status = Some(s),
                       !.processed_at = IF @ = None THEN Some(now) ELSE @]
              ELSE [existing EXCEPT !.status = Some(s)]
        e2 == IF reason # "" THEN [e1 EXCEPT !.reason = Some(reason)] ELSE e1
    IN  save_state(st, email_id, e2, now)

set_status(st, email_id, status, reason, now) ==
    LET existing == or_empty(load_state(st, email_id))
        s == strip(status)
        e1 == IF s \in {"todo", "pending"} THEN [existing EXCEPT !.status = Some("pending")]
              ELSE IF s \in {"skip", "ignore"} THEN [existing EXCEPT !.status = Some("ignore")]
              ELSE IF s \in {"done", "jira", "processed"}
                   THEN [existing EXCEPT
                            !.status = Some("processed"),
                            !.processed_at = IF @ = None THEN Some(now) ELSE @]
              ELSE [existing EXCEPT !.status = Some("pending")]
        e2 == IF reason # "" THEN [e1 EXCEPT !.reason = Some(reason)] ELSE e1
    IN  save_state(st, email_id, e2, now)

mark_processed(st, email_id, now) ==
    LET existing == or_empty(load_state(st, email_id))
    IN  save_state(st, email_id,
            [existing EXCEPT !.status = Some("processed"), !.processed_at = Some(now)], now)

mark_ignore(st, email_id, now) ==
    LET existing == or_empty(load_state(st, email_id))
    IN  save_state(st, email_id, [existing EXCEPT !.status = Some("ignore")], now)

\* set_jira_link that stores the link and leaves the status alone.
set_jira_link_keep_status(st, email_id, jira_key, jira_url, now) ==
    LET existing == or_empty(load_state(st, email_id))
    IN  save_state(st, email_id,
            [existing EXCEPT
                !.jira = Some([key |-> jira_key, url |-> jira_url, created_at |-> now]),
                !.processed_at = IF @ = None THEN Some(now) ELSE @], now)

\* set_jira_link assigning processed_at instead of setdefault.
set_jira_link_restamp(st, email_id, jira_key, jira_url, now) ==
    LET existing == or_empty(load_state(st, email_id))
    IN  save_state(st, email_id,
            [existing EXCEPT
                !.jira = Some([key |-> jira_key, url |-> jira_url, created_at |-> now]),
                !.status = Some("processed"),
                !.processed_at = Some(now)], now)

set_jira_link(st, email_id, jira_key, jira_url, now) ==
    LET existing == or_empty(load_state(st, email_id))
    IN  save_state(st, email_id,
            [existing EXCEPT
                !.jira = Some([key |-> jira_key, url |-> jira_url, created_at |-> now]),
                !.status = Some("processed"),
                !.processed_at = IF @ = None THEN Some(now) ELSE @], now)

\* upsert_ai_result without the "already processed" early return.
upsert_ai_result_no_guard(st, email_id, decision, reason, raw, now) ==
    LET existing == or_empty(load_state(st, email_id))
        e1 == [existing EXCEPT
                  !.ai = Some([decision |-> decision, reason |-> reason,
                               raw |-> IF raw = None THEN "{}" ELSE raw[1],
                               parsed_at |-> now])]
    IN  IF decision = "ignore"
        THEN save_state(st, email_id, [e1 EXCEPT !.status = Some("ignore")], now)
        ELSE save_state(st, email_id, [e1 EXCEPT !.status = Some("pending")], now)

\* upsert_ai_result that also leaves an ignore status alone.
upsert_ai_result_keep_ignore(st, email_id, decision, reason, raw, now) ==
    LET existing == or_empty(load_state(st, email_id))
        e1 == [existing EXCEPT
                  !.ai = Some([decision |-> decision, reason |-> reason,
                               raw |-> IF raw = None THEN "{}" ELSE raw[1],
                               parsed_at |-> now])]
        cur == processing_status(Some(e1))
    IN  IF cur \in {"processed", "ignore"} THEN save_state(st, email_id, e1, now)
        ELSE IF decision = "ignore"
             THEN save_state(st, email_id, [e1 EXCEPT !.status = Some("ignore")], now)
             ELSE save_state(st, email_id, [e1 EXCEPT !.status = Some("pending")], now)

upsert_ai_result(st, email_id, decision, reason, raw, now) ==
    LET existing == or_empty(load_state(st, email_id))
        e1 == [existing EXCEPT
                  !.ai = Some([decision |-> decision, reason |-> reason,
                               raw |-> IF raw = None THEN "{}" ELSE raw[1],
                               parsed_at |-> now])]
        cur == processing_status(Some(e1))
    IN  IF cur = "processed" THEN save_state(st, email_id, e1, now)
        ELSE IF decision = "ignore"
             THEN save_state(st, email_id, [e1 EXCEPT !.status = Some("ignore")], now)
             ELSE save_state(st, email_id, [e1 EXCEPT !.status = Some("pending")], now)

\* upsert_jira_draft that puts the message back to pending, as a new ai result does.
upsert_jira_draft_set_pending(st, email_id, draft, now) ==
    LET existing == or_empty(load_state(st, email_id))
    IN  save_state(st, email_id,
            [existing EXCEPT
                !.status = Some("pending"),
                !.jira_draft = Some([issue_type_name |-> draft.issue_type_name,
                                     summary |-> draft.summary,
                                     description |-> draft.description,
                                     labels |-> draft.labels,
                                     generated_at |-> now])], now)

upsert_jira_draft(st, email_id, draft, now) ==
    LET existing == or_empty(load_state(st, email_id))
    IN  save_state(st, email_id,
            [existing EXCEPT
                !.jira_draft = Some([issue_type_name |-> draft.issue_type_name,
                                     summary |-> draft.summary,
                                     description |-> draft.description,
                                     labels |-> draft.labels,
                                     generated_at |-> now])], now)

\* upsert_reply_draft is imported and called by web/server.py; its body follows the
\* Processing State contract (save_reply_draft) in the manner of upsert_jira_draft.
upsert_reply_draft(st, email_id, language, reply, reply_zh, now) ==
    LET existing == or_empty(load_state(st, email_id))
    IN  save_state(st, email_id,
            [existing EXCEPT
                !.reply_draft = Some([language |-> language, reply |-> reply,
                                      reply_zh |-> reply_zh, generated_at |-> now])], now)

\* ------------------------------------------------------------ web/server

_status_for_email(st, email_id) ==
    LET s == load_state(st, email_id)
    IN  IF s # None /\ s[1].status # None /\ s[1].status[1] # ""
        THEN s[1].status[1]
        ELSE "todo"

\* `str(x or d)` on a string.
str_or(x, d) == IF x = "" THEN d ELSE x

\* api_process_reply_generate passing the translation as the reply.
reply_draft_args_swapped(out) ==
    [language |-> str_or(out.language, "unknown"),
     reply |-> str_or(out.reply_zh, ""),
     reply_zh |-> str_or(out.reply, "")]

\* The keyword arguments api_process_reply_generate hands to upsert_reply_draft.
reply_draft_args(out) ==
    [language |-> str_or(out.language, "unknown"),
     reply |-> str_or(out.reply, ""),
     reply_zh |-> str_or(out.reply_zh, "")]

issue_browse_url(issue_key) ==
    <<"base_url", "/browse/", issue_key>>

\* ------------------------------------------------------------ jira_client

\* The tracker's answers to POST /rest/api/2/issue; key_next is the key it assigns
\* when it creates the issue.  A transport failure raises like a 5xx answer does.
HttpResponses(key_next) ==
    {[status_code |-> 201, key |-> Some(key_next)],
     [status_code |-> 200, key |-> None],
     [status_code |-> 400, key |-> None],
     [status_code |-> 500, key |-> None]}

create_issue_v2(resp) ==
    IF resp.status_code >= 400
    THEN [raised |-> TRUE, json |-> [key |-> None]]
    ELSE [raised |-> FALSE, json |-> [key |-> resp.key]]

\* The handler that links whatever create_issue_v2 returned, key or not.
submit_outcome_no_key_check(resp) ==
    LET created == create_issue_v2(resp)
        issue_key == IF created.json.key = None THEN "" ELSE created.json.key[1]
    IN  IF created.raised THEN [ok |-> FALSE, issue_key |-> "", why |-> "raised"]
        ELSE [ok |-> TRUE, issue_key |-> issue_key, why |-> "created"]

\* The handler that goes on to set_jira_link when create_issue_v2 raised.
submit_outcome_ignores_raise(resp) ==
    LET created == create_issue_v2(resp)
        issue_key == IF created.json.key = None THEN "" ELSE created.json.key[1]
    IN  IF created.raised THEN [ok |-> TRUE, issue_key |-> "", why |-> "raised"]
        ELSE IF issue_key = "" THEN [ok |-> FALSE, issue_key |-> "", why |-> "no_key"]
        ELSE [ok |-> TRUE, issue_key |-> issue_key, why |-> "created"]

\* The try-block of both submit handlers up to the set_jira_link call: whether it
\* goes on to set_jira_link, and with which key.
submit_outcome(resp) ==
    LET created == create_issue_v2(resp)
        issue_key == IF created.json.key = None THEN "" ELSE created.json.key[1]
    IN  IF created.raised THEN [ok |-> FALSE, issue_key |-> "", why |-> "raised"]
        ELSE IF issue_key = "" THEN [ok |-> FALSE, issue_key |-> "", why |-> "no_key"]
        ELSE [ok |-> TRUE, issue_key |-> issue_key, why |-> "created"]

\* ------------------------------------------------------- initial states

\* Documents written before this version: any raw status, processed_at present or not.
LegacyReply == [language |-> "en", reply |-> "hi", reply_zh |-> "", generated_at |-> 0]

LegacyDocs ==
    {[EmptyDoc EXCEPT !.status = s, !.processed_at = p] :
        s \in {None} \cup {Some(x) : x \in RawStatuses}, p \in {None, Some(0)}}
    \cup {[EmptyDoc EXCEPT !.status = Some("pending"), !.reply_draft = Some(LegacyReply)]}

Files == {AbsentFile, CorruptFile, GarbledFile} \cup {DictFile(d) : d \in LegacyDocs}

IdleReq == [pc |-> "idle", handler |-> "", id |-> "", seen |-> "", key |-> ""]

NoReqs == [r \in 1..MaxReqs |-> IdleReq]

NoOp == [op |-> "none", id |-> "", args |-> <<>>, again |-> FALSE]

Writers == {"w1", "w2"}

IdleWriter == [pc |-> "idle", o |-> NoOp, existing |-> None, loaded_at |-> 0, saved_at |-> 0]

NoWriters == [x \in Writers |-> IdleWriter]

NoTriage ==
    [pc |-> "none", subject |-> <<>>, snippet |-> <<>>, body_text |-> <<>>,
     text |-> <<>>, classification |-> "", priority |-> "", summary |-> <<>>]

EmptyJira ==
    [summary |-> None, description |-> None, labels |-> None, reporter_email |-> None,
     subject |-> None, received_at |-> None, snippet |-> None]

EmptyArtifact ==
    [email_id |-> None, threadId |-> None, classification |-> None, priority |-> None,
     jira |-> None, attachments |-> None]

AbsentArtifact == [kind |-> "absent", doc |-> EmptyArtifact]

CorruptArtifact == [kind |-> "corrupt", doc |-> EmptyArtifact]

DictArtifact(d) == [kind |-> "dict", doc |-> d]

NoArtifacts == [id \in {"m1", "m2", "m3"} |-> AbsentArtifact]

NoJob == [pc |-> "none", email_ids |-> <<>>, total |-> 0, done |-> 0, results |-> <<>>]

\* No fetch job has been started; out/emails holds no mail file.
NoFetchJob ==
    [kind |-> "none", pc |-> "none", limit |-> <<>>, msg_ids |-> <<>>, total |-> 0,
     done |-> 0, fetched_ids |-> <<>>, error |-> <<>>, finished |-> FALSE,
     saved |-> {}, calls |-> <<>>]

\* The server runs with READ_ONLY unset and the session has logged in with Gmail.
LoggedInWritable == [read_only |-> FALSE, gmail_authed |-> TRUE]

\* The Jira MCP server has not been started.
NoMcp == [pc |-> "none", stdin |-> <<>>, seen |-> <<>>, out |-> <<>>]

\* No collaborator response is being handled.
NoAi ==
    [pc |-> "none", status_code |-> 0, text |-> <<>>, raised |-> "none", value |-> <<>>,
     error |-> <<>>]

\* The canonical status a raw value stands for, as every reader normalizes it.
Canon(s) == processing_status(Some([EmptyDoc EXCEPT !.status = Some(s)]))

Init ==
    /\ store \in [{"m1"} -> Files]
    /\ clock = 1
    /\ prev = store
    /\ last = NoOp
    /\ req = NoReqs
    /\ issues = <<>>
    /\ last_call = None
    /\ w = NoWriters
    /\ tri = NoTriage
    /\ triage = NoArtifacts
    /\ job = NoJob
    /\ ai_out = NoAi
    /\ fjob = NoFetchJob
    /\ env = LoggedInWritable
    /\ mcp = NoMcp

\* ---------------------------------------------- the state operations

\* One state operation: the store is replaced, the history records it, time passes.
Apply(op, id, args, after) ==
    /\ clock <= MaxClock
    /\ store' = after
    /\ prev' = store
    /\ last' = [op |-> op, id |-> id, args |-> args,
                again |-> /\ op = "set_status"
                          /\ last.op = "set_status"
                          /\ last.id = id
                          /\ Canon(last.args[1]) = Canon(args[1])]
    /\ clock' = clock + 1
    /\ UNCHANGED <<req, issues, last_call, w, tri, triage, job, ai_out, fjob, env, mcp>>

SetStatus ==
    \E id \in DOMAIN store, s \in StatusInputs, r \in Reasons :
        Apply("set_status", id, <<s, r>>, set_status(store, id, s, r, clock))

MarkProcessed ==
    \E id \in DOMAIN store :
        Apply("mark_processed", id, <<>>, mark_processed(store, id, clock))

MarkIgnore ==
    \E id \in DOMAIN store :
        Apply("mark_ignore", id, <<>>, mark_ignore(store, id, clock))

SetJiraLink ==
    \E id \in DOMAIN store, k \in Keys :
        Apply("set_jira_link", id, <<k, issue_browse_url(k)>>,
              set_jira_link(store, id, k, issue_browse_url(k), clock))

UpsertAiResult ==
    \E id \in DOMAIN store, d \in Decisions, raw \in AiRaws :
        Apply("upsert_ai_result", id, <<d, AiReason, raw>>,
              upsert_ai_result(store, id, d, AiReason, raw, clock))

UpsertJiraDraft ==
    \E id \in DOMAIN store, d \in Drafts :
        Apply("upsert_jira_draft", id, <<d>>, upsert_jira_draft(store, id, d, clock))

\* The save step of api_process_reply_generate, once the reply has been generated.
UpsertReplyDraft ==
    \E id \in DOMAIN store, out \in ReplyOutputs :
        LET a == reply_draft_args(out)
        IN  Apply("upsert_reply_draft", id, <<out>>,
                  upsert_reply_draft(store, id, a.language, a.reply, a.reply_zh, clock))

Next ==
    \/ SetStatus
    \/ MarkProcessed
    \/ MarkIgnore
    \/ SetJiraLink
    \/ UpsertAiResult
    \/ UpsertJiraDraft
    \/ UpsertReplyDraft

Spec == Init /\ [][Next]_vars

\* The store a recorded operation leaves when it runs on store st at time now.
Replay(o, st, now) ==
    CASE o.op = "set_status" -> set_status(st, o.id, o.args[1], o.args[2], now)
      [] o.op = "mark_processed" -> mark_processed(st, o.id, now)
      [] o.op = "mark_ignore" -> mark_ignore(st, o.id, now)
      [] o.op = "set_jira_link" -> set_jira_link(st, o.id, o.args[1], o.args[2], now)
      [] o.op = "upsert_ai_result" ->
            upsert_ai_result(st, o.id, o.args[1], o.args[2], o.args[3], now)
      [] o.op = "upsert_jira_draft" -> upsert_jira_draft(st, o.id, o.args[1], now)
      [] o.op = "upsert_reply_draft" ->
            LET a == reply_draft_args(o.args[1])
            IN  upsert_reply_draft(st, o.id, a.language, a.reply, a.reply_zh, now)
      [] OTHER -> st

\* ------------------------------------------------ two writers, one message
\*
\* Every write operation of triage_state is load_state, a change to the loaded
\* dict, save_state.  Nothing locks the file in between, and the web layer runs the
\* operations in worker threads (asyncio.to_thread), so another operation's load or
\* save can fall between the two.  Each writer runs one operation.

RaceFiles == {AbsentFile, DictFile([EmptyDoc EXCEPT !.status = Some("skip")])}

RaceOps ==
    {[NoOp EXCEPT !.op = "set_jira_link", !.id = "m1",
                  !.args = <<"FB-1", issue_browse_url("FB-1")>>],
     [NoOp EXCEPT !.op = "mark_processed", !.id = "m1"],
     [NoOp EXCEPT !.op = "set_status", !.id = "m1", !.args = <<"ignore", "manual">>]}
    \cup {[NoOp EXCEPT !.op = "upsert_ai_result", !.id = "m1", !.args = <<d, AiReason, None>>] :
            d \in {"ignore", "pending"}}
    \cup {[NoOp EXCEPT !.op = "upsert_jira_draft", !.id = "m1", !.args = <<d>>] : d \in Drafts}
    \cup {[NoOp EXCEPT !.op = "upsert_reply_draft", !.id = "m1", !.args = <<out>>] :
            out \in ReplyOutputs}

InitRace ==
    /\ store \in [{"m1"} -> RaceFiles]
    /\ clock = 1
    /\ prev = store
    /\ last = NoOp
    /\ req = NoReqs
    /\ issues = <<>>
    /\ last_call = None
    /\ w = NoWriters
    /\ tri = NoTriage
    /\ triage = NoArtifacts
    /\ job = NoJob
    /\ ai_out = NoAi
    /\ fjob = NoFetchJob
    /\ env = LoggedInWritable
    /\ mcp = NoMcp

\* A store in which the message's file is what the writer loaded.
Loaded(x) ==
    [store EXCEPT ![w[x].o.id] =
        IF w[x].existing = None THEN AbsentFile ELSE DictFile(w[x].existing[1])]

\* The dict the writer hands to save_state: its operation's change made to the
\* dict it loaded.
Changed(x, now) == Replay(w[x].o, Loaded(x), now)[w[x].o.id].doc

\* `existing = load_state(email_id) or {}`: the first statement of an operation.
WriterLoad ==
    \E x \in Writers, o \in RaceOps :
        /\ w[x].pc = "idle"
        /\ w' = [w EXCEPT ![x] = [pc |-> "loaded", o |-> o,
                                  existing |-> load_state(store, o.id),
                                  loaded_at |-> clock, saved_at |-> 0]]
        /\ UNCHANGED <<store, clock, prev, last, req, issues, last_call, tri, triage, job, ai_out, fjob, env, mcp>>

\* The rest of the operation: the change and `return save_state(email_id, existing)`.
WriterSave ==
    \E x \in Writers :
        /\ w[x].pc = "loaded"
        /\ store' = save_state(store, w[x].o.id, Changed(x, clock), clock)
        /\ w' = [w EXCEPT ![x] = [@ EXCEPT !.pc = "saved", !.saved_at = clock]]
        /\ prev' = store
        /\ last' = w[x].o
        /\ clock' = clock + 1
        /\ UNCHANGED <<req, issues, last_call, tri, triage, job, ai_out, fjob, env, mcp>>

NextRace ==
    \/ WriterLoad
    \/ WriterSave

SpecRace == InitRace /\ [][NextRace]_vars

\* ------------------------------------------------------------ triage_core
\*
\* A text is the sequence of its characters, so that `w in t`, str.lower, str.strip
\* and re.sub work on it as they do on a Python string.

BUG_WORDS ==
    <<<<"b", "u", "g">>,
      <<"c", "r", "a", "s", "h">>,
      <<"f", "r", "e", "e", "z", "e">>,
      <<"h", "a", "n", "g">>,
      <<"s", "t", "u", "c", "k">>,
      <<"n", "o", "t", " ", "w", "o", "r", "k", "i", "n", "g">>,
      <<"d", "o", "e", "s", "n", "'", "t", " ", "w", "o", "r", "k">>,
      <<"b", "r", "o", "k", "e", "n">>,
      <<"e", "r", "r", "o", "r">>,
      <<"e", "x", "c", "e", "p", "t", "i", "o", "n">>,
      <<"t", "r", "a", "c", "e", "b", "a", "c", "k">>,
      <<"f", "a", "i", "l">>,
      <<"f", "a", "i", "l", "e", "d">>,
      <<"f", "a", "i", "l", "u", "r", "e">>,
      <<"i", "s", "s", "u", "e">>,
      <<"c", "a", "n", "'", "t">>,
      <<"c", "a", "n", "n", "o", "t">>,
      <<"u", "n", "a", "b", "l", "e">>,
      <<"w", "o", "n", "'", "t">>,
      <<"d", "o", "e", "s", " ", "n", "o", "t">>,
      <<"w", "r", "o", "n", "g">>>>

FEATURE_WORDS ==
    <<<<"f", "e", "a", "t", "u", "r", "e">>,
      <<"r", "e", "q", "u", "e", "s", "t">>,
      <<"c", "o", "u", "l", "d", " ", "y", "o", "u">>,
      <<"c", "a", "n", " ", "y", "o", "u", " ", "a", "d", "d">>,
      <<"p", "l", "e", "a", "s", "e", " ", "a", "d", "d">>,
      <<"w", "i", "s", "h", "l", "i", "s", "t">>,
      <<"s", "u", "p", "p", "o", "r", "t">>,
      <<"w", "o", "u", "l", "d", " ", "b", "e", " ", "g", "r", "e", "a", "t">>,
      <<"e", "n", "h", "a", "n", "c", "e", "m", "e", "n", "t">>,
      <<"i", "m", "p", "r", "o", "v", "e">>,
      <<"i", "m", "p", "r", "o", "v", "e", "m", "e", "n", "t">>>>

QUESTION_WORDS ==
    <<<<"h", "o", "w", " ", "d", "o", " ", "i">>,
      <<"h", "o", "w", " ", "t", "o">>,
      <<"w", "h", "a", "t", " ", "i", "s">>,
      <<"w", "h", "e", "r", "e", " ", "i", "s">>,
      <<"c", "a", "n", " ", "i">>,
      <<"i", "s", " ", "i", "t", " ", "p", "o", "s", "s", "i", "b", "l", "e">>,
      <<"q", "u", "e", "s", "t", "i", "o", "n">>,
      <<"h", "e", "l", "p">>,
      <<"w", "h", "y">>>>

ACCOUNT_WORDS ==
    <<<<"l", "o", "g", "i", "n">>,
      <<"l", "o", "g", " ", "i", "n">>,
      <<"s", "i", "g", "n", " ", "i", "n">>,
      <<"s", "i", "g", "n", "-", "i", "n">>,
      <<"a", "c", "c", "o", "u", "n", "t">>,
      <<"s", "u", "b", "s", "c", "r", "i", "p", "t", "i", "o", "n">>,
      <<"b", "i", "l", "l", "i", "n", "g">>,
      <<"r", "e", "f", "u", "n", "d">>,
      <<"p", "a", "y", "m", "e", "n", "t">>,
      <<"c", "h", "a", "r", "g", "e">>,
      <<"i", "n", "v", "o", "i", "c", "e">>,
      <<"r", "e", "c", "e", "i", "p", "t">>,
      <<"p", "l", "a", "n">>,
      <<"u", "p", "g", "r", "a", "d", "e">>,
      <<"c", "a", "n", "c", "e", "l">>>>

P0_WORDS ==
    <<<<"d", "a", "t", "a", " ", "l", "o", "s", "s">>,
      <<"l", "o", "s", "t", " ", "e", "m", "a", "i", "l", "s">>,
      <<"l", "o", "s", "t", " ", "m", "a", "i", "l">>,
      <<"s", "e", "c", "u", "r", "i", "t", "y">>,
      <<"b", "r", "e", "a", "c", "h">>,
      <<"l", "e", "a", "k">>,
      <<"c", "a", "n", "n", "o", "t", " ", "a", "c", "c", "e", "s", "s">>,
      <<"l", "o", "c", "k", "e", "d", " ", "o", "u", "t">>,
      <<"a", "c", "c", "o", "u", "n", "t", " ", "h", "a", "c", "k", "e", "d">>>>

P1_WORDS ==
    <<<<"c", "r", "a", "s", "h">>,
      <<"f", "r", "e", "e", "z", "e">>,
      <<"h", "a", "n", "g">>,
      <<"s", "t", "u", "c", "k">>,
      <<"c", "a", "n", "n", "o", "t", " ", "s", "e", "n", "d">>,
      <<"c", "a", "n", "'", "t", " ", "s", "e", "n", "d">>,
      <<"c", "a", "n", "n", "o", "t", " ", "r", "e", "c", "e", "i", "v", "e">>,
      <<"c", "a", "n", "'", "t", " ", "r", "e", "c", "e", "i", "v", "e">>,
      <<"u", "r", "g", "e", "n", "t">>,
      <<"i", "m", "m", "e", "d", "i", "a", "t", "e", "l", "y">>,
      <<"a", "s", "a", "p">>>>

P2_WORDS ==
    <<<<"s", "l", "o", "w">>,
      <<"l", "a", "g">>,
      <<"d", "e", "l", "a", "y">>,
      <<"s", "o", "m", "e", "t", "i", "m", "e", "s">>,
      <<"i", "n", "t", "e", "r", "m", "i", "t", "t", "e", "n", "t">>,
      <<"o", "c", "c", "a", "s", "i", "o", "n", "a", "l", "l", "y">>>>

DEFAULT_PRIORITY == "P3"

\* `w in t` on strings: w occurs in t as a substring.
Contains(t, wd) ==
    \E i \in 1..(Len(t) - Len(wd) + 1) : SubSeq(t, i, i + Len(wd) - 1) = wd

\* `any(w in t for w in WORDS)`
any_in(t, WORDS) ==
    \E k \in 1..Len(WORDS) : Contains(t, WORDS[k])

\* What \\s matches and str.strip removes.
IsSpace(c) == c \in {" ", "\n", "\t"}

lower_char(c) ==
    CASE c = "A" -> "a"
      [] c = "B" -> "b"
      [] c = "C" -> "c"
      [] c = "D" -> "d"
      [] c = "E" -> "e"
      [] c = "F" -> "f"
      [] c = "G" -> "g"
      [] c = "H" -> "h"
      [] c = "I" -> "i"
      [] c = "J" -> "j"
      [] c = "K" -> "k"
      [] c = "L" -> "l"
      [] c = "M" -> "m"
      [] c = "N" -> "n"
      [] c = "O" -> "o"
      [] c = "P" -> "p"
      [] c = "Q" -> "q"
      [] c = "R" -> "r"
      [] c = "S" -> "s"
      [] c = "T" -> "t"
      [] c = "U" -> "u"
      [] c = "V" -> "v"
      [] c = "W" -> "w"
      [] c = "X" -> "x"
      [] c = "Y" -> "y"
      [] c = "Z" -> "z"
      [] OTHER -> c

\* str.lower
lower(t) == [i \in 1..Len(t) |-> lower_char(t[i])]

\* str.strip on a text
strip_text(t) ==
    LET solid == {i \in 1..Len(t) : ~IsSpace(t[i])}
    IN  IF solid = {} THEN <<>>
        ELSE SubSeq(t, CHOOSE i \in solid : \A j \in solid : i <= j,
                       CHOOSE i \in solid : \A j \in solid : j <= i)

\* `sep.join(parts)`
join(sep, parts) ==
    LET f[i \in 0..Len(parts)] ==
            IF i = 0 THEN <<>>
            ELSE IF i = 1 THEN parts[1]
            ELSE f[i - 1] \o sep \o parts[i]
    IN  f[Len(parts)]

\* `re.sub(r"\s+", " ", txt)`: every run of whitespace becomes one blank.
collapse_spaces(t) ==
    LET f[i \in 0..Len(t)] ==
            IF i = 0 THEN <<>>
            ELSE IF ~IsSpace(t[i]) THEN Append(f[i - 1], t[i])
            ELSE IF i = 1 \/ ~IsSpace(t[i - 1]) THEN Append(f[i - 1], " ")
            ELSE f[i - 1]
    IN  f[Len(t)]

normalize_text(parts) ==
    LET txt == lower(strip_text(join(<<"\n">>, SelectSeq(parts, LAMBDA p : p # <<>>))))
    IN  collapse_spaces(txt)

\* classify testing the bug words before the account words.
classify_bug_first(text) ==
    LET t == text
    IN  IF any_in(t, BUG_WORDS) THEN "bug"
        ELSE IF any_in(t, ACCOUNT_WORDS) THEN "account_support"
        ELSE IF any_in(t, FEATURE_WORDS) THEN "feature_request"
        ELSE IF any_in(t, QUESTION_WORDS) THEN "question"
        ELSE "other"

classify(text) ==
    LET t == text
    IN  IF any_in(t, ACCOUNT_WORDS) THEN "account_support"
        ELSE IF any_in(t, BUG_WORDS) THEN "bug"
        ELSE IF any_in(t, FEATURE_WORDS) THEN "feature_request"
        ELSE IF any_in(t, QUESTION_WORDS) THEN "question"
        ELSE "other"

\* priority testing the P1 phrases before the P0 phrases.
priority_p1_first(text) ==
    LET t == text
    IN  IF any_in(t, P1_WORDS) THEN "P1"
        ELSE IF any_in(t, P0_WORDS) THEN "P0"
        ELSE IF any_in(t, P2_WORDS) THEN "P2"
        ELSE DEFAULT_PRIORITY

priority(text) ==
    LET t == text
    IN  IF any_in(t, P0_WORDS) THEN "P0"
        ELSE IF any_in(t, P1_WORDS) THEN "P1"
        ELSE IF any_in(t, P2_WORDS) THEN "P2"
        ELSE DEFAULT_PRIORITY

\* The subject shown for a message without one.
no_subject == <<"(", "n", "o", " ", "s", "u", "b", "j", "e", "c", "t", ")">>

pick_summary(classification, subject) ==
    LET subj == IF subject # <<>> THEN strip_text(subject) ELSE no_subject
        prefix ==
            CASE classification = "bug" -> <<"[", "B", "U", "G", "]">>
              [] classification = "feature_request" -> <<"[", "F", "E", "A", "T", "]">>
              [] classification = "question" -> <<"[", "Q", "]">>
              [] classification = "account_support" -> <<"[", "A", "C", "C", "O", "U", "N", "T", "]">>
              [] OTHER -> <<"[", "O", "T", "H", "E", "R", "]">>
    IN  prefix \o <<" ">> \o subj

\* Phrases a message is made of: keywords of every list, in lower case, in upper
\* case, inside a longer word, and broken over two lines.
Phrases ==
    {<<"l", "o", "g", "i", "n">>,
     <<"b", "u", "g">>,
     <<"p", "l", "e", "a", "s", "e", " ", "a", "d", "d">>,
     <<"h", "e", "l", "p">>,
     <<"h", "i">>,
     <<"s", "e", "c", "u", "r", "i", "t", "y">>,
     <<"c", "r", "a", "s", "h", "e", "s">>,
     <<"s", "l", "o", "w">>,
     <<"C", "R", "A", "S", "H">>,
     <<"U", "r", "g", "e", "n", "t">>,
     <<"d", "a", "t", "a", "\n", " ", "l", "o", "s", "s">>}

\* Phrases in a body.
MaxPhrases == 2

Bodies ==
    {join(<<" ">>, ps) : ps \in UNION {[1..n -> Phrases] : n \in 0..MaxPhrases}}

Subjects == {<<>>, <<"R", "e", "f", "u", "n", "d">>, <<" ", " ">>}

Emails ==
    {[NoTriage EXCEPT !.pc = "email", !.subject = s, !.body_text = b] :
        s \in Subjects, b \in Bodies}

InitTriage ==
    /\ store = [id \in {"m1"} |-> AbsentFile]
    /\ clock = 1
    /\ prev = store
    /\ last = NoOp
    /\ req = NoReqs
    /\ issues = <<>>
    /\ last_call = None
    /\ w = NoWriters
    /\ tri \in Emails
    /\ triage = NoArtifacts
    /\ job = NoJob
    /\ ai_out = NoAi
    /\ fjob = NoFetchJob
    /\ env = LoggedInWritable
    /\ mcp = NoMcp

\* triage_one, as far as classification and priority.
TriageOne ==
    /\ tri.pc = "email"
    /\ LET text == normalize_text(<<tri.subject, tri.snippet, tri.body_text>>)
           c == classify(text)
       IN  tri' = [tri EXCEPT !.pc = "triaged", !.text = text,
                              !.classification = c,
                              !.priority = priority(text),
                              !.summary = pick_summary(c, tri.subject)]
    /\ UNCHANGED <<store, clock, prev, last, req, issues, last_call, w, triage, job, ai_out, fjob, env, mcp>>

\* classify and priority called on the body as it is.
CallDirect ==
    /\ tri.pc = "email"
    /\ LET text == tri.body_text
       IN  tri' = [tri EXCEPT !.pc = "direct", !.text = text,
                              !.classification = classify(text),
                              !.priority = priority(text)]
    /\ UNCHANGED <<store, clock, prev, last, req, issues, last_call, w, triage, job, ai_out, fjob, env, mcp>>

NextTriage ==
    \/ TriageOne
    \/ CallDirect

SpecTriage == InitTriage /\ [][NextTriage]_vars

\* ------------------------------------------------- the Triage Artifact
\*
\* The mailbox (out/emails) is fixed here: m1 asks a question, m2 reports a crash,
\* m3 is a file that json.load rejects.  A specification works on the messages in
\* the domain of its store.  Values that are copied and never examined (sender,
\* date, thread, attachments) are one-token texts.

Mailbox ==
    [m1 |-> [kind |-> "ok", id |-> "m1", threadId |-> "t1", subject |-> <<"H", "e", "l", "p">>,
             from |-> <<"a@x">>, date |-> <<"d1">>, snippet |-> <<>>,
             body_text |-> <<"h", "o", "w", " ", "t", "o", " ", "e", "x", "p", "o", "r", "t">>, attachments |-> <<"a.png">>],
     m2 |-> [kind |-> "ok", id |-> "m2", threadId |-> "t2", subject |-> <<" ">>,
             from |-> <<>>, date |-> <<>>, snippet |-> <<"c", "r", "a", "s", "h">>,
             body_text |-> <<"T", "h", "e", " ", "a", "p", "p", " ", "c", "r", "a", "s", "h", "e", "s", "\n">>, attachments |-> <<>>],
     m3 |-> [kind |-> "bad", id |-> "m3", threadId |-> "", subject |-> <<>>,
             from |-> <<>>, date |-> <<>>, snippet |-> <<>>,
             body_text |-> <<>>, attachments |-> <<>>]]

\* Newest first, as list_email_items sorts.
Order == <<"m1", "m3", "m2">>

\* `x or d` on a text.
text_or(x, d) == IF x = <<>> THEN d ELSE x

build_description(from_email, date_str, subject, snippet, body_text, now) ==
    LET body_preview == strip_text(body_text)
        parts ==
            <<IF from_email # <<>> THEN <<"F", "r", "o", "m", ":", " ">> \o from_email ELSE <<"F", "r", "o", "m", ":", " ", "(", "u", "n", "k", "n", "o", "w", "n", ")">>,
              IF date_str # <<>> THEN <<"D", "a", "t", "e", ":", " ">> \o date_str ELSE <<"D", "a", "t", "e", ":", " ">> \o <<ToString(now), "Z">>,
              IF subject # <<>> THEN <<"S", "u", "b", "j", "e", "c", "t", ":", " ">> \o subject ELSE <<"S", "u", "b", "j", "e", "c", "t", ":", " ", "(", "n", "o", " ", "s", "u", "b", "j", "e", "c", "t", ")">>,
              <<>>,
              <<"S", "n", "i", "p", "p", "e", "t", ":">>,
              text_or(snippet, <<"(", "n", "o", "n", "e", ")">>),
              <<>>,
              <<"B", "o", "d", "y", ":">>,
              text_or(body_preview, <<"(", "n", "o", "n", "e", ")">>)>>
    IN  join(<<"\n">>, parts)

\* triage_one on a readable message: the artifact it returns.
triage_one(email, now) ==
    LET text == normalize_text(<<email.subject, email.snippet, email.body_text>>)
        c == classify(text)
        p == priority(text)
    IN  [email_id |-> Some(email.id),
         threadId |-> Some(email.threadId),
         classification |-> Some(c),
         priority |-> Some(p),
         jira |-> Some([summary |-> Some(pick_summary(c, email.subject)),
                        description |-> Some(build_description(email.from, email.date,
                                                email.subject, email.snippet,
                                                email.body_text, now)),
                        labels |-> Some(<<"feedback-triage", c, p>>),
                        reporter_email |-> Some(email.from),
                        subject |-> Some(email.subject),
                        received_at |-> Some(email.date),
                        snippet |-> Some(email.snippet)]),
         attachments |-> Some(email.attachments)]

\* The messages load_json reads, and the times _utc_now shows in a behaviour.
Readable == {id \in {"m1", "m2", "m3"} : Mailbox[id].kind = "ok"}

Clocks == 0..(MaxClock + MaxLimit + MaxFetch + 1)

\* triage_one is a function of the message and the time alone: its values on the
\* mailbox, computed once.
triage_one_of == [id \in Readable, now \in Clocks |-> triage_one(Mailbox[id], now)]

\* triage_email_id: load_json raises on an unreadable message and nothing is
\* written; otherwise the artifact file is replaced by triage_one's result.
triage_email_id(tr, email_id, now) ==
    IF Mailbox[email_id].kind # "ok"
    THEN [raised |-> TRUE, triage |-> tr]
    ELSE [raised |-> FALSE,
          triage |-> [tr EXCEPT ![email_id] = DictArtifact(triage_one_of[email_id, now])]]

load_triage_for_id(tr, email_id) ==
    IF tr[email_id].kind = "dict" THEN Some(tr[email_id].doc) ELSE None

\* upsert_triage_fields starting the ticket draft afresh.
upsert_triage_fields_new_jira(tr, email_id, classification, priority_value, jira_summary, jira_description, jira_labels) ==
    LET existing == IF tr[email_id].kind = "dict" THEN tr[email_id].doc ELSE EmptyArtifact
    IN  [tr EXCEPT ![email_id] =
            DictArtifact([existing EXCEPT
                !.email_id = IF @ = None \/ @ = Some("") THEN Some(email_id) ELSE @,
                !.classification = Some(classification),
                !.priority = Some(priority_value),
                !.jira = Some([EmptyJira EXCEPT
                                  !.summary = Some(jira_summary),
                                  !.description = Some(jira_description),
                                  !.labels = Some(jira_labels)])])]

upsert_triage_fields(tr, email_id, classification, priority_value, jira_summary, jira_description, jira_labels) ==
    LET existing == IF tr[email_id].kind = "dict" THEN tr[email_id].doc ELSE EmptyArtifact
        jira == IF existing.jira = None THEN EmptyJira ELSE existing.jira[1]
    IN  [tr EXCEPT ![email_id] =
            DictArtifact([existing EXCEPT
                !.email_id = IF @ = None \/ @ = Some("") THEN Some(email_id) ELSE @,
                !.classification = Some(classification),
                !.priority = Some(priority_value),
                !.jira = Some([jira EXCEPT
                                  !.summary = Some(jira_summary),
                                  !.description = Some(jira_description),
                                  !.labels = Some(jira_labels)])])]

\* _is_candidate counting questions in.
_is_candidate_with_question(t) ==
    IF t = None \/ t[1] = EmptyArtifact THEN FALSE
    ELSE LET c == strip(IF t[1].classification = None THEN "" ELSE t[1].classification[1])
         IN  c \in {"bug", "feature_request", "account_support", "question"}

_is_candidate(t) ==
    IF t = None \/ t[1] = EmptyArtifact THEN FALSE
    ELSE LET c == strip(IF t[1].classification = None THEN "" ELSE t[1].classification[1])
         IN  c \in {"bug", "feature_request", "account_support"}

\* list_email_items: the ids of the messages at hand, newest first.
list_email_items(st) ==
    SelectSeq(Order, LAMBDA e : e \in DOMAIN st)

_pick_next_email_id(st, tr, scope) ==
    LET emails == list_email_items(st)
        todo == SelectSeq(emails, LAMBDA e : _status_for_email(st, e) = "todo")
        cand == SelectSeq(todo, LAMBDA e : _is_candidate(load_triage_for_id(tr, e)))
    IN  IF scope = "todo"
        THEN IF todo # <<>> THEN Some(todo[1]) ELSE None
        ELSE IF cand # <<>> THEN Some(cand[1])
        ELSE IF scope = "candidate" /\ todo # <<>> THEN Some(todo[1])
        ELSE None

\* `raw.split(sep)` for the separators "," and newline at once.
split_labels(t) ==
    LET f[i \in 0..Len(t)] ==
            IF i = 0 THEN <<<<>>>>
            ELSE IF t[i] \in {",", "\n"} THEN Append(f[i - 1], <<>>)
            ELSE [f[i - 1] EXCEPT ![Len(f[i - 1])] = Append(@, t[i])]
    IN  f[Len(t)]

_labels_from_text(raw) ==
    LET parts == split_labels(raw)
        g[i \in 0..Len(parts)] ==
            IF i = 0 THEN <<>>
            ELSE LET l == strip_text(parts[i])
                 IN  IF l = <<>> \/ \E k \in 1..Len(g[i - 1]) : g[i - 1][k] = l
                     THEN g[i - 1]
                     ELSE Append(g[i - 1], l)
    IN  g[Len(parts)]

\* What the triage form posts: classification, priority, and the draft's fields.
TriageForms ==
    {[classification |-> c, priority |-> "P1", jira_summary |-> <<"s">>,
      jira_description |-> <<>>, jira_labels |-> l] :
        c \in {"bug", "feature_request", "account_support", "question", "other"},
        l \in {<<"u", "i", ",", " ", "b", "u", "g", ",", ",", "u", "i">>}}

\* _jira_issue_type_options(): the two configured type names, or the defaults.
issue_types == <<"Bug", "Task">>

\* What generate_jira_draft_openai_compatible does: it returns a draft, whose
\* labels may or may not be a list, or it raises (settings missing, transport
\* error, output that does not parse); load_settings and _ai_cfg_for_jira raise
\* inside the same try.
NoDraft == [summary |-> <<>>, description |-> <<>>, labels |-> None]

AiDraftResults ==
    {[ok |-> TRUE, why |-> "",
      draft |-> [summary |-> <<"A", "I">>, description |-> <<"x">>, labels |-> Some(<<"ai">>)]],
     [ok |-> TRUE, why |-> "", draft |-> NoDraft]}
    \cup {[ok |-> FALSE, why |-> y, draft |-> NoDraft] :
            y \in {"missing settings", "transport error", "unparseable output"}}

\* The template draft with the subject as it stands, blank or not.
template_draft_raw_subject(email, st) ==
    LET has_ai == st.ai # None
        desc == join(<<"\n">>,
                  <<<<"F", "r", "o", "m", ":", " ">> \o text_or(email.from, <<"(", "u", "n", "k", "n", "o", "w", "n", ")">>),
                    <<"D", "a", "t", "e", ":", " ">> \o text_or(email.date, <<"-">>),
                    <<>>,
                    <<"B", "o", "d", "y", ":">>,
                    email.body_text,
                    <<>>,
                    <<"A", "I", ":">>,
                    <<"d", "e", "c", "i", "s", "i", "o", "n", ":", " ">> \o <<IF has_ai THEN st.ai[1].decision ELSE "-">>,
                    IF has_ai THEN <<st.ai[1].reason>> ELSE <<>>>>)
    IN  [summary |-> email.subject, description |-> strip_text(desc), labels |-> <<>>]

\* The except-branch of api_process_jira_generate: the draft built from the template.
template_draft(email, st) ==
    LET has_ai == st.ai # None
        desc == join(<<"\n">>,
                  <<<<"F", "r", "o", "m", ":", " ">> \o text_or(email.from, <<"(", "u", "n", "k", "n", "o", "w", "n", ")">>),
                    <<"D", "a", "t", "e", ":", " ">> \o text_or(email.date, <<"-">>),
                    <<>>,
                    <<"B", "o", "d", "y", ":">>,
                    email.body_text,
                    <<>>,
                    <<"A", "I", ":">>,
                    <<"d", "e", "c", "i", "s", "i", "o", "n", ":", " ">> \o <<IF has_ai THEN st.ai[1].decision ELSE "-">>,
                    IF has_ai THEN <<st.ai[1].reason>> ELSE <<>>>>)
    IN  [summary |-> text_or(strip_text(email.subject), no_subject),
         description |-> strip_text(desc),
         labels |-> <<>>]

\* The draft api_process_jira_generate goes on to save, given what the AI call did.
generated_draft(email, st, ai) ==
    IF ai.ok
    THEN [summary |-> ai.draft.summary,
          description |-> ai.draft.description,
          labels |-> IF ai.draft.labels = None THEN <<>> ELSE ai.draft.labels[1]]
    ELSE template_draft(email, st)

\* ------------------------------------------------ the submission handlers
\*
\* The handlers run for a logged-in session with READ_ONLY unset.  A handler is a
\* sequence of steps (request accepted, create_issue_v2, set_jira_link): each
\* asyncio.to_thread call is a point where another request can run.

Slots == DOMAIN req

KeyOf(n) == "FB-" \o ToString(n)

\* Two messages, each with no state file yet, or with one of an earlier version.
SubmitFiles == {AbsentFile, DictFile([EmptyDoc EXCEPT !.status = Some("skip")])}

\* A request is served in the first free slot.
FreeSlot(s) ==
    /\ req[s].pc = "idle"
    /\ \A t \in Slots : t < s => req[t].pc # "idle"

\* The two messages are alike, so of the two mixed starts one is kept.
InitSubmit ==
    /\ store \in {f \in [{"m1", "m2"} -> SubmitFiles] :
                     f["m1"] = AbsentFile => f["m2"] = AbsentFile}
    /\ clock = 1
    /\ prev = store
    /\ last = NoOp
    /\ req = NoReqs
    /\ issues = <<>>
    /\ last_call = None
    /\ w = NoWriters
    /\ tri = NoTriage
    /\ triage = NoArtifacts
    /\ job = NoJob
    /\ ai_out = NoAi
    /\ fjob = NoFetchJob
    /\ env = LoggedInWritable
    /\ mcp = NoMcp

\* A state write made by a handler.
HandlerWrite(after) ==
    /\ clock <= MaxWrites
    /\ store' = after
    /\ clock' = clock + 1
    /\ UNCHANGED <<prev, last>>

\* POST /api/process/jira/{email_id}, up to the status check.
ProcessJiraBegin ==
    \E s \in Slots, id \in DOMAIN store :
        /\ FreeSlot(s)
        /\ LET st == or_empty(load_state(store, id))
               pstatus == processing_status(Some(st))
               r == [IdleReq EXCEPT !.handler = "api_process_jira", !.id = id, !.seen = pstatus]
           IN  IF pstatus # "pending"
               THEN req' = [req EXCEPT ![s] = IdleReq]
               ELSE req' = [req EXCEPT ![s] = [r EXCEPT !.pc = "create"]]
        /\ UNCHANGED <<store, clock, prev, last, issues, last_call, w, tri, triage, job, ai_out, fjob, env, mcp>>

\* The form /api/work/decide is posted with when nothing is filled in.
DecideForm ==
    [classification |-> "other", priority |-> "P3", jira_summary |-> <<>>,
     jira_description |-> <<>>, jira_labels |-> <<>>]

\* POST /api/work/decide/{email_id}: the triage fields are saved, then decision jira
\* goes to the tracker without a look at the Processing State, skip and done are
\* written with set_status.  `seen` is history: the status the message had when the
\* request came.
WorkDecideBegin ==
    \E s \in Slots, id \in DOMAIN store, decision0 \in {"jira", "skip", "done", "later"} :
        /\ FreeSlot(s)
        /\ triage' = upsert_triage_fields(triage, id, strip(DecideForm.classification),
                                          strip(DecideForm.priority), DecideForm.jira_summary,
                                          DecideForm.jira_description,
                                          _labels_from_text(DecideForm.jira_labels))
        /\ LET decision == IF decision0 \notin {"jira", "skip", "done"} THEN "jira" ELSE decision0
               seen == processing_status(load_state(store, id))
               r == [IdleReq EXCEPT !.handler = "api_work_decide", !.id = id, !.seen = seen]
           IN  IF decision = "jira"
               THEN /\ req' = [req EXCEPT ![s] = [r EXCEPT !.pc = "create"]]
                    /\ UNCHANGED <<store, clock, prev, last>>
               ELSE /\ HandlerWrite(set_status(store, id, decision, "", clock))
                    /\ req' = [req EXCEPT ![s] = IdleReq]
        /\ UNCHANGED <<issues, last_call, w, tri, job, ai_out, fjob, env, mcp>>

\* The try-block of a submit handler: the Jira settings are read, create_issue_v2 is
\* called and its answer examined.  The tracker creates no more than cap issues.
Create(s, cap) ==
    /\ req[s].pc = "create"
    /\ \/ \* no usable Jira settings: JiraError before any call
          /\ req' = [req EXCEPT ![s] = IdleReq]
          /\ UNCHANGED <<issues, last_call, w, tri, triage, job, ai_out, fjob, env, mcp>>
       \/ \E resp \in HttpResponses(KeyOf(Len(issues) + 1)) :
            LET out == submit_outcome(resp)
                call == [handler |-> req[s].handler, id |-> req[s].id, seen |-> req[s].seen]
            IN  /\ last_call' = Some(call)
                /\ IF resp.key # None
                   THEN /\ Len(issues) < cap
                        /\ issues' = Append(issues, [key |-> resp.key[1], id |-> req[s].id])
                   ELSE issues' = issues
                /\ IF out.ok
                   THEN req' = [req EXCEPT ![s] = [@ EXCEPT !.pc = "link", !.key = out.issue_key]]
                   ELSE req' = [req EXCEPT ![s] = IdleReq]
    /\ UNCHANGED <<store, clock, prev, last, w, tri, triage, job, ai_out, fjob, env, mcp>>

\* set_jira_link with the key create_issue_v2 returned.
Link(s) ==
    /\ req[s].pc = "link"
    /\ HandlerWrite(set_jira_link(store, req[s].id, req[s].key,
                                  issue_browse_url(req[s].key), clock))
    /\ req' = [req EXCEPT ![s] = IdleReq]
    /\ UNCHANGED <<issues, last_call, w, tri, triage, job, ai_out, fjob, env, mcp>>

ProcessJiraCreate ==
    \E s \in Slots : req[s].handler = "api_process_jira" /\ Create(s, MaxIssues)

ProcessJiraLink ==
    \E s \in Slots : req[s].handler = "api_process_jira" /\ Link(s)

WorkDecideCreate ==
    \E s \in Slots : req[s].handler = "api_work_decide" /\ Create(s, MaxIssues)

WorkDecideLink ==
    \E s \in Slots : req[s].handler = "api_work_decide" /\ Link(s)

\* POST /api/process/mark/{email_id}
ApiProcessMark ==
    \E id \in DOMAIN store, mark0 \in {"processed", "ignore", "other"} :
        LET mark == IF mark0 \notin {"processed", "ignore"} THEN "processed" ELSE mark0
        IN  /\ HandlerWrite(set_status(store, id, mark, "", clock))
            /\ UNCHANGED <<req, issues, last_call, w, tri, triage, job, ai_out, fjob, env, mcp>>

\* POST /api/state/set/{email_id}
ApiStateSet ==
    \E id \in DOMAIN store, status \in {"todo"}, reason \in {""} :
        /\ HandlerWrite(set_status(store, id, status, reason, clock))
        /\ UNCHANGED <<req, issues, last_call, w, tri, triage, job, ai_out, fjob, env, mcp>>

NextSubmit ==
    \/ ProcessJiraBegin
    \/ ProcessJiraCreate
    \/ ProcessJiraLink
    \/ WorkDecideBegin
    \/ WorkDecideCreate
    \/ WorkDecideLink
    \/ ApiStateSet

SpecSubmit == InitSubmit /\ [][NextSubmit]_vars

\* ------------------------------------------------------- the double submit
\*
\* Several POST /api/process/jira requests in flight together: the submit button
\* pressed again before the first answer is back.  A message can be marked, or put
\* back to pending, meanwhile.

\* The most submit requests in flight together.
MaxSubmits == 2

InitDouble ==
    /\ store \in [{"m1", "m2"} -> SubmitFiles]
    /\ clock = 1
    /\ prev = store
    /\ last = NoOp
    /\ req = [r \in 1..MaxSubmits |-> IdleReq]
    /\ issues = <<>>
    /\ last_call = None
    /\ w = NoWriters
    /\ tri = NoTriage
    /\ triage = NoArtifacts
    /\ job = NoJob
    /\ ai_out = NoAi
    /\ fjob = NoFetchJob
    /\ env = LoggedInWritable
    /\ mcp = NoMcp

\* create_issue_v2 in one of the requests; the tracker can create an issue for each.
DoubleJiraCreate ==
    \E s \in Slots : req[s].handler = "api_process_jira" /\ Create(s, MaxSubmits)

NextDouble ==
    \/ ProcessJiraBegin
    \/ DoubleJiraCreate
    \/ ProcessJiraLink
    \/ ApiProcessMark
    \/ ApiStateSet

SpecDouble == InitDouble /\ [][NextDouble]_vars

\* ------------------------------------------------ the work queue handlers

WorkIds == {"m1", "m2"}

WorkFiles == {AbsentFile, DictFile([EmptyDoc EXCEPT !.status = Some("todo")])}

InitWork ==
    /\ store \in [WorkIds -> WorkFiles]
    /\ clock = 1
    /\ prev = store
    /\ last = NoOp
    /\ req = NoReqs
    /\ issues = <<>>
    /\ last_call = None
    /\ w = NoWriters
    /\ tri = NoTriage
    /\ triage = NoArtifacts
    /\ job = NoJob
    /\ ai_out = NoAi
    /\ fjob = NoFetchJob
    /\ env = LoggedInWritable
    /\ mcp = NoMcp

\* One handler run to its end: the two stores are replaced, the history records
\* the handler, its arguments and the artifacts as they were.
Act(op, id, args, st_after, tr_after) ==
    /\ clock <= MaxClock
    /\ store' = st_after
    /\ triage' = tr_after
    /\ prev' = store
    /\ last' = [op |-> op, id |-> id, args |-> <<triage>> \o args, again |-> FALSE]
    /\ clock' = clock + 1
    /\ UNCHANGED <<req, issues, last_call, w, tri, job, ai_out, fjob, env, mcp>>

\* POST /api/triage/run/{email_id}
ApiTriageRun ==
    \E id \in DOMAIN store :
        Act("api_triage_run", id, <<>>, store, triage_email_id(triage, id, clock).triage)

\* POST /api/triage/save/{email_id}
ApiTriageSave ==
    \E id \in DOMAIN store, f \in TriageForms :
        Act("api_triage_save", id, <<f>>, store,
            upsert_triage_fields(triage, id, strip(f.classification), strip(f.priority),
                                 f.jira_summary, f.jira_description,
                                 _labels_from_text(f.jira_labels)))

\* GET /work: the next message is picked and, if it has no artifact, triaged.
WorkPage ==
    \E scope \in {"todo", "candidate"} :
        LET email_id == _pick_next_email_id(store, triage, scope)
        IN  IF email_id = None
            THEN Act("work_page", "", <<scope, email_id>>, store, triage)
            ELSE Act("work_page", email_id[1], <<scope, email_id>>, store,
                     IF load_triage_for_id(triage, email_id[1]) = None
                     THEN triage_email_id(triage, email_id[1], clock).triage
                     ELSE triage)

\* POST /api/state/set/{email_id} and POST /api/process/mark/{email_id}
WorkSetStatus ==
    \E id \in DOMAIN store, status \in {"todo", "processed"} :
        Act("set_status", id, <<status>>, set_status(store, id, status, "", clock), triage)

\* The AI classification of a message being ingested.
WorkAiResult ==
    \E id \in DOMAIN store, d \in {"pending"} :
        Act("upsert_ai_result", id, <<d>>,
            upsert_ai_result(store, id, d, AiReason, None, clock), triage)

\* POST /api/process/jira_generate/{email_id}
ApiProcessJiraGenerate ==
    \E id \in DOMAIN store, form \in {"", "Task"}, ai \in AiDraftResults :
        LET st == or_empty(load_state(store, id))
            issue_type_name == IF strip(form) # "" THEN strip(form) ELSE issue_types[1]
            draft == generated_draft(Mailbox[id], st, ai)
        IN  Act("api_process_jira_generate", id, <<ai, issue_type_name>>,
                upsert_jira_draft(store, id,
                    [issue_type_name |-> issue_type_name, summary |-> draft.summary,
                     description |-> draft.description, labels |-> draft.labels], clock),
                triage)

NextWork ==
    \/ ApiTriageRun
    \/ ApiTriageSave
    \/ WorkPage
    \/ WorkSetStatus
    \/ WorkAiResult

SpecWork == InitWork /\ [][NextWork]_vars

\* ------------------------------------------------ ticket draft generation

\* Handler runs per behaviour.
MaxDraftSteps == 2

InitDraft ==
    /\ store = [id \in WorkIds |-> AbsentFile]
    /\ clock = 1
    /\ prev = store
    /\ last = NoOp
    /\ req = NoReqs
    /\ issues = <<>>
    /\ last_call = None
    /\ w = NoWriters
    /\ tri = NoTriage
    /\ triage = NoArtifacts
    /\ job = NoJob
    /\ ai_out = NoAi
    /\ fjob = NoFetchJob
    /\ env = LoggedInWritable
    /\ mcp = NoMcp

DraftGenerate ==
    /\ clock <= MaxDraftSteps
    /\ ApiProcessJiraGenerate

DraftSetStatus ==
    /\ clock <= MaxDraftSteps
    /\ \E id \in DOMAIN store, status \in {"ignore", "processed"} :
          Act("set_status", id, <<status>>, set_status(store, id, status, "", clock), triage)

DraftAiResult ==
    /\ clock <= MaxDraftSteps
    /\ \E id \in DOMAIN store, d \in {"pending", "ignore"} :
          Act("upsert_ai_result", id, <<d>>,
              upsert_ai_result(store, id, d, AiReason, None, clock), triage)

NextDraft ==
    \/ DraftGenerate
    \/ DraftSetStatus
    \/ DraftAiResult

SpecDraft == InitDraft /\ [][NextDraft]_vars

\* ------------------------------------------------------ batch triage job
\*
\* _run_batch is one coroutine: every `await asyncio.to_thread(triage_email_id, ...)`
\* is a point where a status poll can see the job.  After the last item nothing is
\* awaited before finished_at is set.

BatchIds == {"m1", "m2", "m3"}

\* An artifact saved by hand before the job.
OldArtifactFile ==
    DictArtifact([EmptyArtifact EXCEPT !.email_id = Some("old"),
                                       !.classification = Some("other")])

InitBatch ==
    /\ store = [id \in BatchIds |-> AbsentFile]
    /\ clock = 1
    /\ prev = store
    /\ last = NoOp
    /\ req = NoReqs
    /\ issues = <<>>
    /\ last_call = None
    /\ w = NoWriters
    /\ tri = NoTriage
    /\ triage \in [BatchIds -> {AbsentArtifact, CorruptArtifact, OldArtifactFile}]
    /\ job = NoJob
    /\ ai_out = NoAi
    /\ fjob = NoFetchJob
    /\ env = LoggedInWritable
    /\ mcp = NoMcp

\* BatchJob(job_id, email_ids)
BatchJob(email_ids) ==
    [pc |-> "running", email_ids |-> email_ids, total |-> Len(email_ids),
     done |-> 0, results |-> <<>>]

\* One pass of the loop that gives up the job when an item raises.
run_batch_item_unguarded(j, tr, now) ==
    LET email_id == j.email_ids[j.done + 1]
        r == triage_email_id(tr, email_id, now)
    IN  IF r.raised
        THEN [job |-> [j EXCEPT !.pc = "finished"], triage |-> tr]
        ELSE [job |-> [j EXCEPT
                          !.results = Append(@, [email_id |-> email_id, ok |-> TRUE,
                                                 error |-> None,
                                                 triage |-> Some(r.triage[email_id].doc)]),
                          !.done = @ + 1,
                          !.pc = IF j.done + 1 = Len(j.email_ids) THEN "finished" ELSE @],
              triage |-> r.triage]

\* One pass of the loop after which finished_at is never set.
run_batch_item_no_finish(j, tr, now) ==
    LET email_id == j.email_ids[j.done + 1]
        r == triage_email_id(tr, email_id, now)
        result == IF r.raised
                  THEN [email_id |-> email_id, ok |-> FALSE,
                        error |-> Some("load_json failed"), triage |-> None]
                  ELSE [email_id |-> email_id, ok |-> TRUE, error |-> None,
                        triage |-> Some(r.triage[email_id].doc)]
    IN  [job |-> [j EXCEPT !.results = Append(@, result), !.done = @ + 1],
         triage |-> r.triage]

\* One pass of the loop of _run_batch, and the end of the job after the last one.
run_batch_item(j, tr, now) ==
    LET email_id == j.email_ids[j.done + 1]
        r == triage_email_id(tr, email_id, now)
        result == IF r.raised
                  THEN [email_id |-> email_id, ok |-> FALSE,
                        error |-> Some("load_json failed"), triage |-> None]
                  ELSE [email_id |-> email_id, ok |-> TRUE, error |-> None,
                        triage |-> Some(r.triage[email_id].doc)]
    IN  [job |-> [j EXCEPT
                     !.results = Append(@, result),
                     !.done = @ + 1,
                     !.pc = IF j.done + 1 = Len(j.email_ids) THEN "finished" ELSE @],
         triage |-> r.triage]

\* POST /api/triage/batch/start
ApiBatchStart ==
    \E limit0 \in 0..MaxLimit :
        LET limit1 == IF limit0 # 0 THEN limit0 ELSE 5
            limit == IF limit1 > 200 THEN 200 ELSE IF limit1 < 1 THEN 1 ELSE limit1
            items == list_email_items(store)
            email_ids == SubSeq(items, 1, IF limit < Len(items) THEN limit ELSE Len(items))
        IN  /\ job.pc = "none"
            /\ job' = BatchJob(email_ids)
            /\ UNCHANGED <<store, clock, prev, last, req, issues, last_call, w, tri, triage, ai_out, fjob, env, mcp>>

RunBatch ==
    /\ job.pc = "running"
    /\ job.done < Len(job.email_ids)
    /\ LET r == run_batch_item(job, triage, clock)
       IN  /\ job' = r.job
           /\ triage' = r.triage
    /\ clock' = clock + 1
    /\ UNCHANGED <<store, prev, last, req, issues, last_call, w, tri, ai_out, fjob, env, mcp>>

NextBatch ==
    \/ ApiBatchStart
    \/ RunBatch

SpecBatch == InitBatch /\ [][NextBatch]_vars

\* ------------------------------------------------------------ fetch jobs
\*
\* _run_fetch and _run_fetch_parse.  fetch_to_out runs in a thread and reports each
\* message through the progress callback; what follows its return in
\* _run_fetch_parse (the parse loop and the finally clause) has no await in it and
\* is one step.  fjob.saved is the set of mail files under out/emails; fjob.calls
\* is history: the upsert_ai_result calls made, each with what load_email_by_id
\* and analyze_email came to.

FetchIds == {"m1", "m2", "m3"}

\* The result value of the prompt that means the mail needs no action, and the
\* one that means it does.
NO_ACTION == "no action needed"

TO_HANDLE == "to handle"

\* What Gmail lists for the query: distinct ids, newest first.
Inboxes ==
    {q \in UNION {[1..n -> FetchIds] : n \in 0..MaxFetch} :
        \A i \in DOMAIN q, j \in DOMAIN q : i # j => q[i] # q[j]}

\* What analyze_email comes to: the parsed JSON object of the model, or AiError.
AnalyzeOutcomes ==
    {[raised |-> FALSE, result |-> Some(NO_ACTION), reason |-> Some("newsletter"), error |-> ""],
     [raised |-> FALSE, result |-> Some(" no action needed "), reason |-> None, error |-> ""],
     [raised |-> FALSE, result |-> Some(TO_HANDLE), reason |-> Some("bug report"), error |-> ""],
     [raised |-> FALSE, result |-> None, reason |-> None, error |-> ""],
     [raised |-> TRUE, result |-> None, reason |-> None, error |-> "AI request failed (401)"]}

\* `_list_message_ids(service, "me", query=q, max_results=max_results)`
_list_message_ids(inbox, max_results) ==
    IF max_results = None \/ max_results[1] >= Len(inbox) THEN inbox
    ELSE SubSeq(inbox, 1, max_results[1])

\* `str(out.get(key) or "")`
get_str(x) == IF x = None THEN "" ELSE x[1]

\* The body of the parse loop that stores a failed message as ignore.
ai_call_ignore_on_failure(loaded, out) ==
    IF ~loaded
    THEN [decision |-> "ignore", reason |-> "AI parse failed: Email not found",
          raw |-> Some("error")]
    ELSE IF out.raised
    THEN [decision |-> "ignore", reason |-> "AI parse failed: " \o out.error,
          raw |-> Some("error")]
    ELSE [decision |-> IF strip(get_str(out.result)) = NO_ACTION THEN "ignore" ELSE "pending",
          reason |-> get_str(out.reason),
          raw |-> Some("raw")]

\* The body of the parse loop: the arguments upsert_ai_result is called with for a
\* message whose file could be loaded or not, and analyze_email's outcome for it.
ai_call(loaded, out) ==
    IF ~loaded
    THEN [decision |-> "pending", reason |-> "AI parse failed: Email not found",
          raw |-> Some("error")]
    ELSE IF out.raised
    THEN [decision |-> "pending", reason |-> "AI parse failed: " \o out.error,
          raw |-> Some("error")]
    ELSE [decision |-> IF strip(get_str(out.result)) = NO_ACTION THEN "ignore" ELSE "pending",
          reason |-> get_str(out.reason),
          raw |-> Some("raw")]

\* `for mid in fetched_ids:` from the k-th id on, outs[k] being what analyze_email
\* comes to for it: the store and the calls after the loop.
RECURSIVE parse_loop(_, _, _, _, _, _, _)
parse_loop(st, calls, fetched_ids, saved, outs, k, now) ==
    IF k > Len(fetched_ids) THEN [store |-> st, calls |-> calls]
    ELSE LET mid == fetched_ids[k]
             loaded == mid \in saved
             a == ai_call(loaded, outs[k])
         IN  parse_loop(upsert_ai_result(st, mid, a.decision, a.reason, a.raw, now),
                        Append(calls, [id |-> mid, decision |-> a.decision,
                                       reason |-> a.reason, loaded |-> loaded,
                                       out |-> outs[k]]),
                        fetched_ids, saved, outs, k + 1, now + 1)

\* A message processed by hand before the job, or no state file at all.
FetchFiles == {AbsentFile, DictFile([EmptyDoc EXCEPT !.status = Some("processed"),
                                                      !.processed_at = Some(0)])}

InitFetch ==
    /\ store \in {f \in [FetchIds -> FetchFiles] : f["m2"] = AbsentFile /\ f["m3"] = AbsentFile}
    /\ clock = 1
    /\ prev = store
    /\ last = NoOp
    /\ req = NoReqs
    /\ issues = <<>>
    /\ last_call = None
    /\ w = NoWriters
    /\ tri = NoTriage
    /\ triage = NoArtifacts
    /\ job = NoJob
    /\ ai_out = NoAi
    /\ fjob \in {[NoFetchJob EXCEPT !.saved = old] : old \in {{}, {"m1"}}}
    /\ env = LoggedInWritable
    /\ mcp = NoMcp

\* POST /api/fetch_parse/start
ApiFetchParseStart ==
    \E limit0 \in 0..MaxFetch :
        LET limit1 == IF limit0 # 0 THEN limit0 ELSE 50
            limit == IF limit1 > 500 THEN 500 ELSE IF limit1 < 1 THEN 1 ELSE limit1
        IN  /\ fjob.kind = "none"
            /\ fjob' = [fjob EXCEPT !.kind = "fetch_parse", !.pc = "created",
                                    !.limit = Some(limit)]
            /\ UNCHANGED <<store, clock, prev, last, req, issues, last_call, w, tri, triage,
                           job, ai_out, env, mcp>>

\* POST /api/gmail/fetch/start: max_results is empty (everything), a number, or
\* not a number (400, no job).
ApiGmailFetchStart ==
    \E max_results \in {[text |-> t, int |-> 0] : t \in {"", "x"}}
                         \cup {[text |-> "int", int |-> n] : n \in 0..MaxFetch} :
        LET mr == IF max_results.text = "" THEN None
                  ELSE IF max_results.int < 1 THEN Some(1)
                  ELSE IF max_results.int > 50000 THEN Some(50000)
                  ELSE Some(max_results.int)
        IN  /\ fjob.kind = "none"
            /\ IF max_results.text = "x"
               THEN fjob' = fjob
               ELSE fjob' = [fjob EXCEPT !.kind = "fetch", !.pc = "list", !.limit = mr]
            /\ UNCHANGED <<store, clock, prev, last, req, issues, last_call, w, tri, triage,
                           job, ai_out, env, mcp>>

\* _run_fetch_parse up to the call of fetch_to_out: the AI settings are read, and
\* without a key or a prompt ai_config_from_settings raises.
FetchParseSettings ==
    /\ fjob.kind = "fetch_parse"
    /\ fjob.pc = "created"
    /\ \E complete \in BOOLEAN :
          fjob' = IF complete THEN [fjob EXCEPT !.pc = "list"]
                  ELSE [fjob EXCEPT !.pc = "done", !.error = Some("Missing AI settings"),
                                    !.finished = TRUE]
    /\ UNCHANGED <<store, clock, prev, last, req, issues, last_call, w, tri, triage,
                   job, ai_out, env, mcp>>

\* fetch_to_out up to the loop: without a token file, or when the listing fails,
\* it raises, and the job's except and finally clauses run.
FetchList ==
    /\ fjob.pc = "list"
    /\ \/ \E why \in {"Missing token.json", "Gmail API error"} :
             fjob' = [fjob EXCEPT !.pc = "done", !.error = Some(why), !.finished = TRUE]
       \/ \E inbox \in Inboxes :
             fjob' = [fjob EXCEPT !.pc = "fetch",
                                  !.msg_ids = _list_message_ids(inbox, fjob.limit)]
    /\ UNCHANGED <<store, clock, prev, last, req, issues, last_call, w, tri, triage,
                   job, ai_out, env, mcp>>

\* One pass of the loop of fetch_to_out: the mail is saved or the pass fails, and
\* either way on_progress is called with its id.
FetchMessage ==
    /\ fjob.pc = "fetch"
    /\ fjob.done < Len(fjob.msg_ids)
    /\ \E saved \in BOOLEAN :
          LET msg_id == fjob.msg_ids[fjob.done + 1]
          IN  fjob' = [fjob EXCEPT
                          !.saved = IF saved THEN @ \cup {msg_id} ELSE @,
                          !.done = @ + 1,
                          !.total = Len(fjob.msg_ids),
                          !.fetched_ids = IF fjob.kind = "fetch_parse"
                                          THEN Append(@, msg_id) ELSE @]
    /\ UNCHANGED <<store, clock, prev, last, req, issues, last_call, w, tri, triage,
                   job, ai_out, env, mcp>>

\* fetch_to_out has returned to _run_fetch: the finally clause.
RunFetchReturn ==
    /\ fjob.kind = "fetch"
    /\ fjob.pc = "fetch"
    /\ fjob.done = Len(fjob.msg_ids)
    /\ fjob' = [fjob EXCEPT !.pc = "done", !.finished = TRUE]
    /\ UNCHANGED <<store, clock, prev, last, req, issues, last_call, w, tri, triage,
                   job, ai_out, env, mcp>>

\* fetch_to_out has returned to _run_fetch_parse: the parse loop over the ids it
\* reported, and the finally clause.
RunFetchParseLoop ==
    /\ fjob.kind = "fetch_parse"
    /\ fjob.pc = "fetch"
    /\ fjob.done = Len(fjob.msg_ids)
    /\ \E outs \in [1..Len(fjob.fetched_ids) -> AnalyzeOutcomes] :
          LET r == parse_loop(store, fjob.calls, fjob.fetched_ids, fjob.saved, outs, 1, clock)
          IN  /\ store' = r.store
              /\ fjob' = [fjob EXCEPT !.pc = "done", !.calls = r.calls, !.finished = TRUE]
    /\ clock' = clock + Len(fjob.fetched_ids)
    /\ UNCHANGED <<prev, last, req, issues, last_call, w, tri, triage, job, ai_out, env, mcp>>

NextFetch ==
    \/ ApiFetchParseStart
    \/ ApiGmailFetchStart
    \/ FetchParseSettings
    \/ FetchList
    \/ FetchMessage
    \/ RunFetchReturn
    \/ RunFetchParseLoop

SpecFetch == InitFetch /\ [][NextFetch]_vars

\* ------------------------------------------------------- all three jobs
\*
\* A batch triage job and a fetch or fetch-and-parse job side by side.  The event
\* loop runs every task it was given, and a call handed to a thread returns or
\* raises: each step of a job that can be taken is taken in the end.

InitJobs ==
    /\ store = [id \in FetchIds |-> AbsentFile]
    /\ clock = 1
    /\ prev = store
    /\ last = NoOp
    /\ req = NoReqs
    /\ issues = <<>>
    /\ last_call = None
    /\ w = NoWriters
    /\ tri = NoTriage
    /\ triage = NoArtifacts
    /\ job = NoJob
    /\ ai_out = NoAi
    /\ fjob = NoFetchJob
    /\ env = LoggedInWritable
    /\ mcp = NoMcp

NextJobs ==
    \/ ApiBatchStart
    \/ RunBatch
    \/ ApiFetchParseStart
    \/ ApiGmailFetchStart
    \/ FetchParseSettings
    \/ FetchList
    \/ FetchMessage
    \/ RunFetchReturn
    \/ RunFetchParseLoop

SpecJobs ==
    /\ InitJobs
    /\ [][NextJobs]_vars
    /\ WF_vars(RunBatch)
    /\ WF_vars(FetchParseSettings)
    /\ WF_vars(FetchList)
    /\ WF_vars(FetchMessage)
    /\ WF_vars(RunFetchReturn)
    /\ WF_vars(RunFetchParseLoop)

\* ---------------------------------------------- login and read-only mode
\*
\* What a handler does before its work: _require_gmail_login raises 401 for a
\* session without gmail_authed, and `if READ_ONLY:` returns the page with
\* nothing written.  The handler actions of the sections above are the handlers
\* past these two statements; here each is taken with the tests its source has.
\* A refused request changes nothing.

_require_gmail_login == env.gmail_authed

READ_ONLY == env.read_only

InitAccess ==
    /\ store = [id \in {"m2"} |-> AbsentFile]
    /\ clock = 1
    /\ prev = store
    /\ last = NoOp
    /\ req = NoReqs
    /\ issues = <<>>
    /\ last_call = None
    /\ w = NoWriters
    /\ tri = NoTriage
    /\ triage = NoArtifacts
    /\ job = NoJob
    /\ ai_out = NoAi
    /\ fjob = NoFetchJob
    /\ env \in [read_only : BOOLEAN, gmail_authed : BOOLEAN]
    /\ mcp = NoMcp

\* GET /work
WorkPageRequest ==
    /\ _require_gmail_login
    /\ WorkPage

\* POST /api/triage/run/{email_id}
TriageRunRequest ==
    /\ _require_gmail_login
    /\ ~READ_ONLY
    /\ ApiTriageRun

\* POST /api/triage/save/{email_id}
TriageSaveRequest ==
    /\ _require_gmail_login
    /\ ~READ_ONLY
    /\ ApiTriageSave

\* POST /api/state/set/{email_id}
StateSetRequest ==
    /\ _require_gmail_login
    /\ ~READ_ONLY
    /\ ApiStateSet

\* POST /api/process/jira/{email_id}
ProcessJiraRequest ==
    /\ _require_gmail_login
    /\ ~READ_ONLY
    /\ ProcessJiraBegin

\* POST /api/fetch_parse/start
FetchParseStartRequest ==
    /\ _require_gmail_login
    /\ ~READ_ONLY
    /\ ApiFetchParseStart

\* POST /api/triage/batch/start and POST /api/gmail/fetch/start make neither test.
NextAccess ==
    \/ WorkPageRequest
    \/ TriageRunRequest
    \/ TriageSaveRequest
    \/ StateSetRequest
    \/ ProcessJiraRequest
    \/ ProcessJiraCreate
    \/ ProcessJiraLink
    \/ FetchParseStartRequest
    \/ ApiGmailFetchStart
    \/ ApiBatchStart
    \/ RunBatch

SpecAccess == InitAccess /\ [][NextAccess]_vars

\* ------------------------------------------------------------ AI output
\*
\* A model output is a text, a sequence of one-character strings.  json.loads
\* is computed on it: objects with string keys, string and number values and
\* nested objects, over an alphabet with no escapes, arrays or literals.

Failed == [ok |-> FALSE, next |-> 0, val |-> <<>>]

\* The first position from i on that holds no whitespace.
skip_ws(t, i) ==
    CHOOSE j \in i..(Len(t) + 1) :
        /\ j = Len(t) + 1 \/ ~IsSpace(t[j])
        /\ \A k \in i..(j - 1) : IsSpace(t[k])

Is(t, i, c) == i <= Len(t) /\ t[i] = c

\* A string literal at i: up to the next quote, no control character inside.
scan_string(t, i) ==
    LET closes == {j \in (i + 1)..Len(t) : t[j] = "\""}
    IN  IF ~Is(t, i, "\"") \/ closes = {} THEN Failed
        ELSE LET j == CHOOSE j \in closes : \A k \in closes : j <= k
             IN  IF \E k \in (i + 1)..(j - 1) : t[k] \in {"\n", "\t"} THEN Failed
                 ELSE [ok |-> TRUE, next |-> j + 1, val |-> SubSeq(t, i, j)]

\* A number at i: a run of digits.
scan_number(t, i) ==
    LET j == CHOOSE j \in i..(Len(t) + 1) :
                 /\ j = Len(t) + 1 \/ t[j] # "1"
                 /\ \A k \in i..(j - 1) : t[k] = "1"
    IN  [ok |-> TRUE, next |-> j, val |-> SubSeq(t, i, j - 1)]

RECURSIVE scan_value(_, _)
RECURSIVE scan_members(_, _, _)

\* The members of an object from the key at i on; acc is the object read so far.
scan_members(t, i, acc) ==
    LET k == scan_string(t, i)
        c == skip_ws(t, k.next)
        v == scan_value(t, skip_ws(t, c + 1))
        e == skip_ws(t, v.next)
        member == acc \o k.val \o <<":">> \o v.val
    IN  IF ~k.ok \/ ~Is(t, c, ":") THEN Failed
        ELSE IF ~v.ok THEN Failed
        ELSE IF Is(t, e, "}") THEN [ok |-> TRUE, next |-> e + 1, val |-> Append(member, "}")]
        ELSE IF Is(t, e, ",") THEN scan_members(t, skip_ws(t, e + 1), Append(member, ","))
        ELSE Failed

\* The value at i, written back without whitespace.
scan_value(t, i) ==
    IF Is(t, i, "\"") THEN scan_string(t, i)
    ELSE IF Is(t, i, "1") THEN scan_number(t, i)
    ELSE IF Is(t, i, "{")
    THEN LET j == skip_ws(t, i + 1)
         IN  IF Is(t, j, "}") THEN [ok |-> TRUE, next |-> j + 1, val |-> <<"{", "}">>]
             ELSE scan_members(t, j, <<"{">>)
    ELSE Failed

\* json.loads(t)
json_loads(t) ==
    LET v == scan_value(t, skip_ws(t, 1))
    IN  IF v.ok /\ skip_ws(t, v.next) = Len(t) + 1
        THEN [raised |-> "none", value |-> v.val]
        ELSE [raised |-> "JSONDecodeError", value |-> <<>>]

\* str.find / str.rfind, 0 for Python's -1.
find(t, c) ==
    LET at == {i \in 1..Len(t) : t[i] = c}
    IN  IF at = {} THEN 0 ELSE CHOOSE i \in at : \A j \in at : i <= j

rfind(t, c) ==
    LET at == {i \in 1..Len(t) : t[i] = c}
    IN  IF at = {} THEN 0 ELSE CHOOSE i \in at : \A j \in at : j <= i

_extract_json_from_text(text0) ==
    LET text == strip_text(text0)
        start == find(text, "{")
        end == rfind(text, "}")
    IN  IF text = <<>> THEN [raised |-> "AiError", value |-> <<>>]
        ELSE IF text[1] = "{" /\ text[Len(text)] = "}" THEN json_loads(text)
        ELSE IF start >= 1 /\ end > start THEN json_loads(SubSeq(text, start, end))
        ELSE [raised |-> "AiError", value |-> <<>>]

\* The pieces model outputs are put together from.
Pieces ==
    { <<"S", "u", "r", "e", ":", " ">>,
      <<"{", "\"", "a", "\"", ":", "1", "}">>,
      <<"{", "}">>,
      <<"{", "\"", "a", "\"", ":", "{", "\"", "b", "\"", ":", "1", "1", "}", "}">>,
      <<" ", "o", "k", " ", "{", "x", "}">>,
      <<"{", " ", "\"", "a", "\"", " ", ":", " ", "\"", "y", "\"", " ", ",", " ", "\"", "b", "\"", ":", "1", " ", "}">>,
      <<"x">>,
      <<"}">>,
      <<"{">>,
      <<"\n">> }

\* The most pieces in one model output.
MaxPieces == 2

RECURSIVE Outputs(_)
Outputs(n) ==
    IF n = 0 THEN {<<>>}
    ELSE Outputs(n - 1) \cup {a \o b : a \in Outputs(n - 1), b \in Pieces}

\* ------------------------------------------------------------ error texts
\*
\* A collaborator's response is a status code and a body text; the error raised
\* for it is a text too, so that what _redact_secrets leaves in it is computed.

\* What \\w matches.
WordChars ==
    {"a", "b", "c", "d", "e", "f", "g", "h", "i", "j", "k", "l", "m", "n", "o", "p",
     "q", "r", "s", "t", "u", "v", "w", "x", "y", "z", "A", "B", "C", "D", "E", "F",
     "G", "H", "I", "J", "K", "L", "M", "N", "O", "P", "Q", "R", "S", "T", "U", "V",
     "W", "X", "Y", "Z", "0", "1", "2", "3", "4", "5", "6", "7", "8", "9", "_"}

\* [A-Za-z0-9_\\-]
SkClass == WordChars \cup {"-"}

\* [A-Za-z0-9\\-_\\.]
BearerClass == WordChars \cup {"-", "."}

\* \\b between positions e and e + 1.
Boundary(t, e) ==
    (e \in 1..Len(t) /\ t[e] \in WordChars) # (e + 1 \in 1..Len(t) /\ t[e + 1] \in WordChars)

\* The last position of the run of class characters that starts at i; i - 1 if none.
run_end(t, i, class) ==
    CHOOSE r \in (i - 1)..Len(t) :
        /\ \A k \in i..r : t[k] \in class
        /\ r = Len(t) \/ t[r + 1] \notin class

\* Where a match of \\bsk-[A-Za-z0-9_\\-]{8,}\\b that starts at i ends; 0 if none does.
sk_match(t, i) ==
    IF i + 2 <= Len(t) /\ Boundary(t, i - 1) /\ SubSeq(t, i, i + 2) = <<"s", "k", "-">>
    THEN LET ends == {e \in (i + 10)..run_end(t, i + 3, SkClass) : Boundary(t, e)}
         IN  IF ends = {} THEN 0 ELSE CHOOSE e \in ends : \A k \in ends : k <= e
    ELSE 0

\* A match of (Bearer\\s+)[A-Za-z0-9\\-_\\.]{8,}, case ignored, that starts at i:
\* where group 1 ends and where the match ends; 0 if none does.
bearer_match(t, i) ==
    IF i + 5 <= Len(t) /\ lower(SubSeq(t, i, i + 5)) = <<"b", "e", "a", "r", "e", "r">>
    THEN LET g == run_end(t, i + 6, {" ", "\n", "\t"})
             e == run_end(t, g + 1, BearerClass)
         IN  IF g >= i + 6 /\ e - g >= 8 THEN [group |-> g, end |-> e]
             ELSE [group |-> 0, end |-> 0]
    ELSE [group |-> 0, end |-> 0]

RECURSIVE sub_sk(_, _)
sub_sk(t, i) ==
    IF i > Len(t) THEN <<>>
    ELSE LET e == sk_match(t, i)
         IN  IF e > 0 THEN <<"s", "k", "-", "*", "*", "*">> \o sub_sk(t, e + 1)
             ELSE <<t[i]>> \o sub_sk(t, i + 1)

RECURSIVE sub_bearer(_, _)
sub_bearer(t, i) ==
    IF i > Len(t) THEN <<>>
    ELSE LET m == bearer_match(t, i)
         IN  IF m.end > 0 THEN SubSeq(t, i, m.group) \o <<"*", "*", "*">> \o sub_bearer(t, m.end + 1)
             ELSE <<t[i]>> \o sub_bearer(t, i + 1)

_redact_secrets(text) ==
    IF text = <<>> THEN <<>> ELSE sub_bearer(sub_sk(text, 1), 1)

\* `[:500]`
ErrorTextLimit == 500

Take(t, n) == SubSeq(t, 1, IF n < Len(t) THEN n ELSE Len(t))

\* str(resp.status_code)
str_status(n) ==
    CASE n = 200 -> <<"2", "0", "0">>
      [] n = 401 -> <<"4", "0", "1">>

\* json.dumps(data, ensure_ascii=False) of a parsed value: ", " and ": " separators.
json_dumps(val) ==
    LET f[i \in 0..Len(val)] ==
            IF i = 0 THEN <<>>
            ELSE LET quotes == Cardinality({k \in 1..(i - 1) : val[k] = "\""})
                 IN  IF quotes % 2 = 0 /\ val[i] \in {":", ","}
                     THEN f[i - 1] \o <<val[i], " ">>
                     ELSE Append(f[i - 1], val[i])
    IN  f[Len(val)]

\* AiError(f"AI request failed ({resp.status_code}): {_redact_secrets(resp.text)[:500]}")
ai_request_failed(status_code, text) ==
    <<"A", "I", " ", "r", "e", "q", "u", "e", "s", "t", " ", "f", "a", "i", "l", "e", "d", " ", "(">> \o str_status(status_code)
        \o <<")", ":", " ">> \o Take(_redact_secrets(text), ErrorTextLimit)

\* AiError(f"Unexpected AI response: {_redact_secrets(json.dumps(data, ...))[:500]}")
ai_unexpected_response(data) ==
    <<"U", "n", "e", "x", "p", "e", "c", "t", "e", "d", " ", "A", "I", " ", "r", "e", "s", "p", "o", "n", "s", "e", ":", " ">>
        \o Take(_redact_secrets(json_dumps(data)), ErrorTextLimit)

\* JiraError(f"Jira create issue failed ({resp.status_code}): {resp.text}")
jira_create_failed(status_code, text) ==
    <<"J", "i", "r", "a", " ", "c", "r", "e", "a", "t", "e", " ", "i", "s", "s", "u", "e", " ", "f", "a", "i", "l", "e", "d", " ", "(">> \o str_status(status_code)
        \o <<")", ":", " ">> \o text

\* What response bodies are put together from: prose and credentials echoed back.
SecretPieces ==
    { <<"i", "n", "v", "a", "l", "i", "d", " ", "k", "e", "y">>,
      <<" ", "s", "k", "-", "a", "b", "c", "d", "1", "2", "3", "4">>,
      <<" ", "B", "e", "a", "r", "e", "r", " ", "t", "o", "k", "1", "2", "3", "4", "5">>,
      <<" ", "b", "e", "a", "r", "e", "r", "\t", "T", "O", "K", ".", "1", "2", "-", "4", "5">>,
      <<" ", "x", ".">> }

Secrets ==
    { <<"s", "k", "-", "a", "b", "c", "d", "1", "2", "3", "4">>,
      <<"t", "o", "k", "1", "2", "3", "4", "5">>,
      <<"T", "O", "K", ".", "1", "2", "-", "4", "5">> }

RECURSIVE Echoes(_)
Echoes(n) ==
    IF n = 0 THEN {<<>>}
    ELSE Echoes(n - 1) \cup {a \o b : a \in Echoes(n - 1), b \in SecretPieces}

\* A body is plain text or a JSON object {"error": "..."}.
ResponseBodies ==
    Echoes(MaxPieces)
        \cup {<<"{", "\"", "e", "r", "r", "o", "r", "\"", ":", "\"">> \o t \o <<"\"", "}">> : t \in {e \in Echoes(MaxPieces) : \A k \in 1..Len(e) : e[k] # "\t"}}

Responses ==
    {[NoAi EXCEPT !.pc = pc, !.status_code = c, !.text = t] :
        pc \in {"ai_response", "jira_response"}, c \in {200, 401}, t \in ResponseBodies}

\* `if resp.status_code >= 400: raise AiError(...)`
AiRequestFailed ==
    /\ ai_out.pc = "ai_response"
    /\ ai_out.status_code >= 400
    /\ ai_out' = [ai_out EXCEPT !.pc = "raised", !.raised = "AiError",
                                !.error = ai_request_failed(ai_out.status_code, ai_out.text)]
    /\ UNCHANGED <<store, clock, prev, last, req, issues, last_call, w, tri, triage, job, fjob, env, mcp>>

\* `data = resp.json()` and the lookup of choices[0].message.content in it, which
\* an error object does not have.
AiUnexpectedResponse ==
    /\ ai_out.pc = "ai_response"
    /\ ai_out.status_code < 400
    /\ LET data == json_loads(ai_out.text)
       IN  ai_out' = IF data.raised # "none"
                     THEN [ai_out EXCEPT !.pc = "raised", !.raised = data.raised,
                                         !.error = <<"Expecting value">>]
                     ELSE [ai_out EXCEPT !.pc = "raised", !.raised = "AiError",
                                         !.error = ai_unexpected_response(data.value)]
    /\ UNCHANGED <<store, clock, prev, last, req, issues, last_call, w, tri, triage, job, fjob, env, mcp>>

\* create_issue_v2 on the tracker's answer.
JiraCreateIssue ==
    /\ ai_out.pc = "jira_response"
    /\ ai_out' = IF ai_out.status_code >= 400
                  THEN [ai_out EXCEPT !.pc = "raised", !.raised = "JiraError",
                                      !.error = jira_create_failed(ai_out.status_code, ai_out.text)]
                  ELSE [ai_out EXCEPT !.pc = "returned"]
    /\ UNCHANGED <<store, clock, prev, last, req, issues, last_call, w, tri, triage, job, fjob, env, mcp>>

InitAi ==
    /\ store = [id \in {"m1"} |-> AbsentFile]
    /\ clock = 1
    /\ prev = store
    /\ last = NoOp
    /\ req = NoReqs
    /\ issues = <<>>
    /\ last_call = None
    /\ w = NoWriters
    /\ tri = NoTriage
    /\ triage = NoArtifacts
    /\ job = NoJob
    /\ ai_out \in {[NoAi EXCEPT !.pc = "content", !.text = t] : t \in Outputs(MaxPieces)}
                   \cup Responses
    /\ fjob = NoFetchJob
    /\ env = LoggedInWritable
    /\ mcp = NoMcp

\* `out = _extract_json_from_text(content)`
ExtractJson ==
    /\ ai_out.pc = "content"
    /\ LET out == _extract_json_from_text(ai_out.text)
       IN  ai_out' = [ai_out EXCEPT !.pc = "parsed", !.raised = out.raised, !.value = out.value]
    /\ UNCHANGED <<store, clock, prev, last, req, issues, last_call, w, tri, triage, job, fjob, env, mcp>>

NextAi ==
    \/ ExtractJson
    \/ AiRequestFailed
    \/ AiUnexpectedResponse
    \/ JiraCreateIssue

SpecAi == InitAi /\ [][NextAi]_vars

\* -------------------------------------------------- the Jira MCP server
\*
\* main reads stdin line by line.  A line is a text; json.loads is computed on
\* it as above, and the request's members are read out of the object it gives.
\* A response is what _send writes: the id, result or error, and the error code.

\* Lines on stdin per behaviour.
MaxLines == 2

\* A blank line, two lines json.loads rejects or parses to no object, and
\* requests: initialize, tools/list, tools/call (a tool, an unknown tool,
\* arguments that are a string, params that are a string), an unknown method,
\* a request without an id.
McpLines ==
   {
    <<" ">>,
    <<"{">>,
    <<"1">>,
    <<"\"", "x", "\"">>,
    <<"{", "\"", "i", "d", "\"", ":", "1", ",", "\"", "m", "e", "t", "h", "o",
      "d", "\"", ":", "\"", "i", "n", "i", "t", "i", "a", "l", "i", "z", "e",
      "\"", "}">>,
    <<"{", "\"", "i", "d", "\"", ":", "1", "1", ",", " ", "\"", "m", "e", "t",
      "h", "o", "d", "\"", ":", "\"", "t", "o", "o", "l", "s", "/", "l", "i",
      "s", "t", "\"", "}">>,
    <<"{", "\"", "i", "d", "\"", ":", "1", ",", "\"", "m", "e", "t", "h", "o",
      "d", "\"", ":", "\"", "t", "o", "o", "l", "s", "/", "c", "a", "l", "l",
      "\"", ",", "\"", "p", "a", "r", "a", "m", "s", "\"", ":", "{", "\"", "n",
      "a", "m", "e", "\"", ":", "\"", "j", "i", "r", "a", ".", "s", "e", "a",
      "r", "c", "h", "\"", ",", "\"", "a", "r", "g", "u", "m", "e", "n", "t",
      "s", "\"", ":", "{", "}", "}", "}">>,
    <<"{", "\"", "i", "d", "\"", ":", "1", ",", "\"", "m", "e", "t", "h", "o",
      "d", "\"", ":", "\"", "t", "o", "o", "l", "s", "/", "c", "a", "l", "l",
      "\"", ",", "\"", "p", "a", "r", "a", "m", "s", "\"", ":", "{", "\"", "n",
      "a", "m", "e", "\"", ":", "\"", "x", "\"", "}", "}">>,
    <<"{", "\"", "i", "d", "\"", ":", "1", ",", "\"", "m", "e", "t", "h", "o",
      "d", "\"", ":", "\"", "t", "o", "o", "l", "s", "/", "c", "a", "l", "l",
      "\"", ",", "\"", "p", "a", "r", "a", "m", "s", "\"", ":", "{", "\"", "n",
      "a", "m", "e", "\"", ":", "\"", "j", "i", "r", "a", ".", "s", "e", "a",
      "r", "c", "h", "\"", ",", "\"", "a", "r", "g", "u", "m", "e", "n", "t",
      "s", "\"", ":", "\"", "x", "\"", "}", "}">>,
    <<"{", "\"", "i", "d", "\"", ":", "1", ",", "\"", "m", "e", "t", "h", "o",
      "d", "\"", ":", "\"", "t", "o", "o", "l", "s", "/", "c", "a", "l", "l",
      "\"", ",", "\"", "p", "a", "r", "a", "m", "s", "\"", ":", "\"", "x", "\"",
      "}">>,
    <<"{", "\"", "i", "d", "\"", ":", "1", "1", "1", ",", "\"", "m", "e", "t",
      "h", "o", "d", "\"", ":", "\"", "x", "\"", "}">>,
    <<"{", "\"", "m", "e", "t", "h", "o", "d", "\"", ":", "\"", "i", "n", "i",
      "t", "i", "a", "l", "i", "z", "e", "\"", "}">>}

\* What a Jira tool comes to: it returns, raises MCPError (missing settings,
\* HTTP 400 and up), or raises something else (the connection fails).
ToolOutcomes == {"returns", "MCPError", "Exception"}

TOOLS ==
    {<<"j", "i", "r", "a", ".", "c", "r", "e", "a", "t", "e", "_", "i", "s", "s", "u", "e">>,
     <<"j", "i", "r", "a", ".", "g", "e", "t", "_", "i", "s", "s", "u", "e">>,
     <<"j", "i", "r", "a", ".", "s", "e", "a", "r", "c", "h">>}

\* How many objects are open at position i of the object text o.
open_objects(o, i) ==
    Cardinality({j \in 1..(i - 1) : o[j] = "{"}) - Cardinality({j \in 1..(i - 1) : o[j] = "}"})

\* dict.get(key) on a parsed object, which json_loads has written back without
\* whitespace: the value of the last member of the object itself with the key, or
\* None.  No string of the model holds a brace.
dict_get(o, key) ==
    LET k == <<"\"">> \o key \o <<"\"", ":">>
        hits == {i \in 2..(Len(o) - Len(k) + 1) :
                    SubSeq(o, i, i + Len(k) - 1) = k /\ open_objects(o, i) = 1}
    IN  IF hits = {} THEN None
        ELSE Some(scan_value(o, (CHOOSE i \in hits : \A j \in hits : j <= i) + Len(k)).val)

\* isinstance(v, dict) on a parsed value.
is_dict(v) == v # <<>> /\ v[1] = "{"

\* `x or d` on a parsed value: None, "" and {} are false.
value_or(x, d) ==
    IF x = None \/ x[1] = <<"\"", "\"">> \/ x[1] = <<"{", "}">> THEN d ELSE x[1]

\* str(v) on a parsed value: a string loses its quotes.
str_value(v) ==
    IF v # <<>> /\ v[1] = "\"" THEN SubSeq(v, 2, Len(v) - 1) ELSE v

_result(id_) == [id |-> id_, kind |-> "result", code |-> 0]

_error(id_, code) == [id |-> id_, kind |-> "error", code |-> code]

\* _dispatch_tool, and what main writes for what it does.
_dispatch_tool(id_, name, outcome) ==
    IF name \notin TOOLS THEN _error(id_, -32601)
    ELSE IF outcome = "returns" THEN _result(id_)
    ELSE IF outcome = "MCPError" THEN _error(id_, -32001)
    ELSE _error(id_, -32099)

\* One pass of `for line in sys.stdin:` for the stripped line l, p being what
\* json.loads(l) comes to: whether an exception leaves main, and the responses
\* written.
main_line(l, p, outcome) ==
    LET request == p.value
        id_ == dict_get(request, <<"i", "d">>)
        method == dict_get(request, <<"m", "e", "t", "h", "o", "d">>)
        params == value_or(dict_get(request, <<"p", "a", "r", "a", "m", "s">>), <<"{", "}">>)
        tool_name == str_value(value_or(dict_get(params, <<"n", "a", "m", "e">>), <<>>))
        arguments == value_or(dict_get(params, <<"a", "r", "g", "u", "m", "e", "n", "t", "s">>), <<"{", "}">>)
    IN  IF l = <<>> THEN [raised |-> FALSE, out |-> <<>>]
        ELSE IF p.raised # "none" THEN [raised |-> FALSE, out |-> <<_error(None, -32700)>>]
        ELSE IF ~is_dict(request) THEN [raised |-> TRUE, out |-> <<>>]
        ELSE IF method = Some(<<"\"", "i", "n", "i", "t", "i", "a", "l", "i", "z", "e", "\"">>) THEN [raised |-> FALSE, out |-> <<_result(id_)>>]
        ELSE IF method = Some(<<"\"", "t", "o", "o", "l", "s", "/", "l", "i", "s", "t", "\"">>) THEN [raised |-> FALSE, out |-> <<_result(id_)>>]
        ELSE IF method = Some(<<"\"", "t", "o", "o", "l", "s", "/", "c", "a", "l", "l", "\"">>)
        THEN IF ~is_dict(params) THEN [raised |-> FALSE, out |-> <<_error(id_, -32099)>>]
             ELSE IF ~is_dict(arguments) THEN [raised |-> FALSE, out |-> <<_error(id_, -32602)>>]
             ELSE [raised |-> FALSE, out |-> <<_dispatch_tool(id_, tool_name, outcome)>>]
        ELSE [raised |-> FALSE, out |-> <<_error(id_, -32601)>>]

InitMcp ==
    /\ store = [id \in {"m1"} |-> AbsentFile]
    /\ clock = 1
    /\ prev = store
    /\ last = NoOp
    /\ req = NoReqs
    /\ issues = <<>>
    /\ last_call = None
    /\ w = NoWriters
    /\ tri = NoTriage
    /\ triage = NoArtifacts
    /\ job = NoJob
    /\ ai_out = NoAi
    /\ fjob = NoFetchJob
    /\ env = LoggedInWritable
    /\ mcp \in {[NoMcp EXCEPT !.pc = "serving", !.stdin = ls] :
                   ls \in UNION {[1..n -> McpLines] : n \in 0..MaxLines}}

\* The loop of main takes the next line.  `seen` is history: the lines read that
\* were not blank.
McpLine ==
    /\ mcp.pc = "serving"
    /\ mcp.stdin # <<>>
    /\ \E outcome \in ToolOutcomes, l \in {strip_text(Head(mcp.stdin))} :
          \E p \in {json_loads(l)} :
             LET r == main_line(l, p, outcome)
             IN  mcp' = [mcp EXCEPT
                            !.pc = IF r.raised THEN "crashed" ELSE @,
                            !.stdin = Tail(@),
                            !.seen = IF l = <<>> THEN @ ELSE Append(@, l),
                            !.out = @ \o r.out]
    /\ UNCHANGED <<store, clock, prev, last, req, issues, last_call, w, tri, triage, job, ai_out,
                   fjob, env>>

\* stdin is at its end: the loop is left and main returns.
McpEof ==
    /\ mcp.pc = "serving"
    /\ mcp.stdin = <<>>
    /\ mcp' = [mcp EXCEPT !.pc = "returned"]
    /\ UNCHANGED <<store, clock, prev, last, req, issues, last_call, w, tri, triage, job, ai_out,
                   fjob, env>>

NextMcp ==
    \/ McpLine
    \/ McpEof

SpecMcp == InitMcp /\ [][NextMcp]_vars

\* ------------------------------------------------------------ properties

Canonical == {"pending", "ignore", "processed"}

Doc(id) == or_empty(load_state(store, id))

PrevDoc(id) == or_empty(load_state(prev, id))

Status(id) == processing_status(load_state(store, id))

PrevStatus(id) == processing_status(load_state(prev, id))

\* C1: once a message has jira.key, its normalized status is processed after every
\* further state operation.
C1_JiraKeyStaysProcessed ==
    \A id \in DOMAIN store : Doc(id).jira # None => Status(id) = "processed"

\* C2: once processed_at has a value, no later write operation changes it.
C2_ProcessedAtSetOnce ==
    \A id \in DOMAIN store :
        PrevDoc(id).processed_at # None => Doc(id).processed_at = PrevDoc(id).processed_at

\* C3: upsert_ai_result on a message whose normalized status is processed leaves it
\* processed, for every decision, and replaces the ai sub-record by the new result.
C3_AiNeverLeavesProcessed ==
    (last.op = "upsert_ai_result" /\ PrevStatus(last.id) = "processed")
        => /\ Status(last.id) = "processed"
           /\ Doc(last.id).status = PrevDoc(last.id).status
           /\ Doc(last.id).ai =
                Some([decision |-> last.args[1], reason |-> last.args[2],
                      raw |-> IF last.args[3] = None THEN "{}" ELSE last.args[3][1],
                      parsed_at |-> clock - 1])

\* C3 witness: an ignore decision was ingested for a legacy "done" message that
\* already carried an older ai result.
C3_Witness ==
    /\ last.op = "upsert_ai_result"
    /\ last.args[1] = "ignore"
    /\ PrevDoc(last.id).status = Some("done")
    /\ PrevDoc(last.id).ai # None
    /\ Doc(last.id).ai # PrevDoc(last.id).ai
    /\ Status(last.id) = "processed"

\* C4: create_issue_v2 is never called for a message whose normalized status was
\* not pending when the submit request came in, by either submit handler.
C4_CreateOnlyWhenPending ==
    last_call # None => last_call[1].seen = "pending"

\* C5: a stored jira.key is the key of an issue create_issue_v2 created for that
\* message, and set_jira_link is only ever about to run with such a key.
C5_LinkOnlyForCreatedTicket ==
    /\ \A id \in DOMAIN store :
          Doc(id).jira # None =>
              \E i \in 1..Len(issues) :
                  issues[i].key = Doc(id).jira[1].key /\ issues[i].id = id
    /\ \A s \in Slots :
          req[s].pc = "link" =>
              \E i \in 1..Len(issues) : issues[i].key = req[s].key /\ issues[i].id = req[s].id

\* C5 witness: one message carries the link of its created issue while a call for
\* the other message failed and left it without a link.
C5_Witness ==
    \E a \in DOMAIN store, b \in DOMAIN store :
        /\ a # b
        /\ Doc(a).jira # None
        /\ last_call # None /\ last_call[1].id = b
        /\ \A i \in 1..Len(issues) : issues[i].id = a
        /\ \A s \in Slots : req[s].pc = "idle"
        /\ Doc(b).jira = None

\* C6: every accessor yields a canonical status: processing_status maps the legacy
\* values, and _status_for_email is canonical as well.
C6_AccessorsCanonical ==
    \A id \in DOMAIN store :
        /\ Status(id) \in Canonical
        /\ _status_for_email(store, id) \in Canonical

\* C7: a second set_status with a value of the same canonical status stores the same
\* status as the first and leaves processed_at as the first left it.
C7_SetStatusIdempotent ==
    (last.op = "set_status" /\ last.again)
        => /\ Doc(last.id).status = PrevDoc(last.id).status
           /\ Doc(last.id).status = Some(Canon(last.args[1]))
           /\ Doc(last.id).processed_at = PrevDoc(last.id).processed_at

\* C7 witness: set_status(done) ran right after set_status(processed), which had
\* stamped processed_at; the stamp is the first call's.
C7_Witness ==
    /\ last.op = "set_status"
    /\ last.again
    /\ last.args[1] = "done"
    /\ PrevDoc(last.id).processed_at = Some(clock - 2)
    /\ Doc(last.id).processed_at = Some(clock - 2)
    /\ Doc(last.id).updated_at = Some(clock - 1)

\* C8: aliases are normalized on write: todo/pending, skip/ignore and
\* done/jira/processed store the same document from the same prior state, and the
\* stored status is the canonical value.
C8_AliasesNormalizedOnWrite ==
    /\ \A id \in DOMAIN store, r \in Reasons :
        /\ set_status(store, id, "todo", r, clock) = set_status(store, id, "pending", r, clock)
        /\ set_status(store, id, "skip", r, clock) = set_status(store, id, "ignore", r, clock)
        /\ set_status(store, id, "done", r, clock) = set_status(store, id, "processed", r, clock)
        /\ set_status(store, id, "jira", r, clock) = set_status(store, id, "processed", r, clock)
    /\ last.op = "set_status" =>
        /\ Doc(last.id).status \in {Some(c) : c \in Canonical}
        /\ last.args[1] \in {"todo", "skip", "done", "jira"} =>
              Doc(last.id).status = Some(Canon(last.args[1]))

\* C8 witness: set_status(todo) over a processed message stored status pending.
C8_Witness ==
    /\ last.op = "set_status"
    /\ last.args[1] = "todo"
    /\ PrevStatus(last.id) = "processed"
    /\ Doc(last.id).status = Some("pending")

\* C9: set_jira_link stores jira = {key, url, created_at} for the given key and url,
\* leaves status processed, and leaves ai, jira_draft and reply_draft as they were.
C9_SetJiraLinkEffect ==
    last.op = "set_jira_link" =>
        /\ Doc(last.id).jira =
              Some([key |-> last.args[1], url |-> last.args[2], created_at |-> clock - 1])
        /\ Doc(last.id).status = Some("processed")
        /\ Status(last.id) = "processed"
        /\ Doc(last.id).ai = PrevDoc(last.id).ai
        /\ Doc(last.id).jira_draft = PrevDoc(last.id).jira_draft
        /\ Doc(last.id).reply_draft = PrevDoc(last.id).reply_draft

\* C9 witness: the link was set on an ignored message that had an ai result and a
\* reply draft, and both are still there.
C9_Witness ==
    /\ last.op = "set_jira_link"
    /\ PrevStatus(last.id) = "ignore"
    /\ PrevDoc(last.id).ai # None
    /\ PrevDoc(last.id).reply_draft # None
    /\ Doc(last.id).jira # None
    /\ Doc(last.id).ai # None
    /\ Doc(last.id).reply_draft # None

\* C10: set_jira_link sets processed_at only when it is unset; on a message that has
\* processed_at it replaces the jira sub-record and leaves processed_at unchanged.
C10_LinkStampsProcessedAtOnce ==
    last.op = "set_jira_link" =>
        /\ PrevDoc(last.id).processed_at # None =>
              Doc(last.id).processed_at = PrevDoc(last.id).processed_at
        /\ PrevDoc(last.id).processed_at = None =>
              Doc(last.id).processed_at = Some(clock - 1)
        /\ Doc(last.id).jira # None /\ Doc(last.id).jira[1].created_at = clock - 1

\* C10 witness: a second set_jira_link with another key replaced the first link and
\* kept the first link's processed_at.
C10_Witness ==
    /\ last.op = "set_jira_link"
    /\ PrevDoc(last.id).jira # None
    /\ PrevDoc(last.id).jira[1].key # last.args[1]
    /\ Doc(last.id).jira[1].key = last.args[1]
    /\ PrevDoc(last.id).processed_at = Some(PrevDoc(last.id).jira[1].created_at)
    /\ Doc(last.id).processed_at = PrevDoc(last.id).processed_at

\* C11: on a message whose normalized status is not processed, upsert_ai_result
\* stores the ai sub-record and sets status to ignore when the decision is "ignore"
\* and to pending for every other decision.
C11_AiSetsIgnoreOrPending ==
    (last.op = "upsert_ai_result" /\ PrevStatus(last.id) # "processed")
        => /\ Doc(last.id).ai =
                Some([decision |-> last.args[1], reason |-> last.args[2],
                      raw |-> IF last.args[3] = None THEN "{}" ELSE last.args[3][1],
                      parsed_at |-> clock - 1])
           /\ Doc(last.id).status =
                Some(IF last.args[1] = "ignore" THEN "ignore" ELSE "pending")

\* C11 witness: a decision other than ignore was ingested for a message a user had
\* set to ignore by hand, and the message is pending again.
C11_Witness ==
    /\ last.op = "upsert_ai_result"
    /\ last.args[1] = "processed"
    /\ PrevDoc(last.id).status = Some("ignore")
    /\ PrevDoc(last.id).reason = Some("manual")
    /\ Doc(last.id).status = Some("pending")
    /\ Doc(last.id).ai # None

\* C12: from every prior state mark_processed(id) stores the document that
\* set_status(id, "processed") stores, and mark_ignore(id) the one that
\* set_status(id, "ignore") stores.
C12_MarkersAreSetStatusWrappers ==
    \A id \in DOMAIN store :
        /\ mark_processed(store, id, clock) = set_status(store, id, "processed", "", clock)
        /\ mark_ignore(store, id, clock) = set_status(store, id, "ignore", "", clock)

\* C13: upsert_jira_draft changes only jira_draft (and updated_at): the normalized
\* status, the stored status, processed_at, ai, jira and reply_draft are as before.
C13_JiraDraftFrame ==
    last.op = "upsert_jira_draft" =>
        /\ Status(last.id) = PrevStatus(last.id)
        /\ Doc(last.id).status = PrevDoc(last.id).status
        /\ Doc(last.id).processed_at = PrevDoc(last.id).processed_at
        /\ Doc(last.id).ai = PrevDoc(last.id).ai
        /\ Doc(last.id).jira = PrevDoc(last.id).jira
        /\ Doc(last.id).reply_draft = PrevDoc(last.id).reply_draft
        /\ Doc(last.id).jira_draft # None
        /\ Doc(last.id).jira_draft[1].generated_at = clock - 1
        /\ Doc(last.id).jira_draft[1].summary = last.args[1].summary

\* C13 witness: a draft was saved for a processed message that carries a ticket link.
C13_Witness ==
    /\ last.op = "upsert_jira_draft"
    /\ PrevStatus(last.id) = "processed"
    /\ PrevDoc(last.id).jira # None
    /\ PrevDoc(last.id).jira_draft = None
    /\ Doc(last.id).jira_draft # None
    /\ Status(last.id) = "processed"

C15_AbsentIsPending ==
    \A id \in DOMAIN store :
        /\ store[id].kind = "absent" =>
              /\ load_state(store, id) = None
              /\ processing_status(load_state(store, id)) = "pending"
        /\ (store[id].kind = "dict" /\ store[id].doc.status = None) =>
              processing_status(load_state(store, id)) = "pending"

\* C15 witness: upsert_jira_draft created the document of a message that had none;
\* the document has no status field and the message reads as pending.
C15_Witness ==
    /\ last.op = "upsert_jira_draft"
    /\ prev[last.id].kind = "absent"
    /\ store[last.id].kind = "dict"
    /\ Doc(last.id).status = None
    /\ Doc(last.id).jira_draft # None
    /\ Status(last.id) = "pending"

\* C16: a corrupt state file is treated like an absent one: load_state returns
\* nothing, the message reads as pending, and a write on it stores what the same
\* write stores when there is no file.
C16_CorruptIsAbsent ==
    /\ \A id \in DOMAIN store :
          store[id].kind = "corrupt" =>
              /\ load_state(store, id) = None
              /\ Status(id) = "pending"
    /\ (last.op # "none" /\ prev[last.id].kind = "corrupt") =>
          store = Replay(last, [prev EXCEPT ![last.id] = AbsentFile], clock - 1)

\* C16 witness: set_status(processed) ran on a file cut off in mid-write; the new
\* document is stamped now and holds nothing of the old bytes.
C16_Witness ==
    /\ last.op = "set_status"
    /\ prev[last.id] = GarbledFile
    /\ Doc(last.id).status = Some("processed")
    /\ Doc(last.id).processed_at = Some(clock - 1)
    /\ Doc(last.id).email_id = Some(last.id)

\* Both writers have saved, and each had loaded before either saved.
Raced ==
    \A x \in Writers, y \in Writers :
        /\ w[x].pc = "saved"
        /\ w[x].loaded_at <= w[y].saved_at

\* C17: when two writes on one message both load before either saves, the stored
\* document is the later saver's: what its operation makes of the document it
\* loaded, without the earlier saver's change.  An upsert_ai_result that saves
\* after set_jira_link leaves no jira link and status pending or ignore.
C17_LastWriteWins ==
    Raced =>
        \A x \in Writers, y \in Writers :
            w[y].saved_at < w[x].saved_at =>
                /\ store[w[x].o.id] =
                      Replay(w[x].o, Loaded(x), w[x].saved_at)[w[x].o.id]
                /\ (w[y].o.op = "set_jira_link" /\ w[x].o.op = "upsert_ai_result") =>
                      /\ Doc(w[x].o.id).jira = None
                      /\ Status(w[x].o.id) \in {"pending", "ignore"}

\* C17 witness: set_jira_link and upsert_ai_result both loaded the same document,
\* set_jira_link saved first, and the stored document has the ai result, no jira
\* link and status pending.
C17_Witness ==
    /\ Raced
    /\ w["w1"].o.op = "set_jira_link"
    /\ w["w2"].o.op = "upsert_ai_result"
    /\ w["w1"].saved_at < w["w2"].saved_at
    /\ prev["m1"].doc.jira # None
    /\ Doc("m1").jira = None
    /\ Doc("m1").ai # None
    /\ Status("m1") = "pending"

\* C18: classify is first match wins over account, bug, feature, question words:
\* a text with an account keyword is account_support whatever else it contains,
\* and a text with no keyword, the empty text included, is other.
C18_ClassifyPrecedence ==
    tri.pc \in {"direct", "triaged"} =>
        LET acc == any_in(tri.text, ACCOUNT_WORDS)
            bug == any_in(tri.text, BUG_WORDS)
            feat == any_in(tri.text, FEATURE_WORDS)
            ques == any_in(tri.text, QUESTION_WORDS)
        IN  /\ acc => tri.classification = "account_support"
            /\ (~acc /\ bug) => tri.classification = "bug"
            /\ (~acc /\ ~bug /\ feat) => tri.classification = "feature_request"
            /\ (~acc /\ ~bug /\ ~feat /\ ques) => tri.classification = "question"
            /\ (~acc /\ ~bug /\ ~feat /\ ~ques) => tri.classification = "other"
            /\ tri.text = <<>> => tri.classification = "other"

\* C18 witness: a text with an account word and a bug word was classified
\* account_support.
C18_Witness ==
    /\ tri.pc = "triaged"
    /\ any_in(tri.text, ACCOUNT_WORDS)
    /\ any_in(tri.text, BUG_WORDS)
    /\ tri.classification = "account_support"

\* C19: priority is first match wins over P0, P1, P2 phrases, else P3: a text with
\* a P0 and a P1 phrase is P0, a text with no phrase, the empty text included, is P3.
C19_PriorityPrecedence ==
    tri.pc \in {"direct", "triaged"} =>
        LET p0 == any_in(tri.text, P0_WORDS)
            p1 == any_in(tri.text, P1_WORDS)
            p2 == any_in(tri.text, P2_WORDS)
        IN  /\ p0 => tri.priority = "P0"
            /\ (~p0 /\ p1) => tri.priority = "P1"
            /\ (~p0 /\ ~p1 /\ p2) => tri.priority = "P2"
            /\ (~p0 /\ ~p1 /\ ~p2) => tri.priority = "P3"
            /\ tri.text = <<>> => tri.priority = "P3"

\* C19 witness: a text with a P0 phrase and a P1 phrase got priority P0.
C19_Witness ==
    /\ tri.pc = "triaged"
    /\ any_in(tri.text, P0_WORDS)
    /\ any_in(tri.text, P1_WORDS)
    /\ tri.priority = "P0"

\* C20: classify and priority are case-insensitive: called directly on a text, and
\* through triage_one on a message, they give what they give for the lowercased
\* text or message.
C20_CaseInsensitive ==
    /\ tri.pc = "direct" =>
          /\ tri.classification = classify(lower(tri.body_text))
          /\ tri.priority = priority(lower(tri.body_text))
    /\ tri.pc = "triaged" =>
          LET text == normalize_text(<<lower(tri.subject), lower(tri.snippet),
                                       lower(tri.body_text)>>)
          IN  /\ tri.classification = classify(text)
              /\ tri.priority = priority(text)

\* C21: the summary triage_one builds is the classification's bracket prefix, a
\* blank and the subject, with "(no subject)" for a message without subject text
\* (empty or whitespace-only subject).
C21_SummaryPrefixAndSubject ==
    tri.pc = "triaged" =>
        LET prefix ==
                CASE tri.classification = "bug" -> <<"[", "B", "U", "G", "]">>
                  [] tri.classification = "feature_request" -> <<"[", "F", "E", "A", "T", "]">>
                  [] tri.classification = "question" -> <<"[", "Q", "]">>
                  [] tri.classification = "account_support" -> <<"[", "A", "C", "C", "O", "U", "N", "T", "]">>
                  [] tri.classification = "other" -> <<"[", "O", "T", "H", "E", "R", "]">>
            subj == IF strip_text(tri.subject) = <<>> THEN no_subject
                    ELSE strip_text(tri.subject)
        IN  tri.summary = prefix \o <<" ">> \o subj

\* The artifact of the message the last handler was about, before and after it.
OldArtifact ==
    IF last.args[1][last.id].kind = "dict" THEN last.args[1][last.id].doc ELSE EmptyArtifact

NewArtifact == triage[last.id].doc

Candidates == {"bug", "feature_request", "account_support"}

\* C22: upsert_triage_fields replaces classification, priority and the draft's
\* summary, description and labels, and leaves attachments, email_id, threadId and
\* the draft's reporter_email, subject, received_at and snippet of an existing
\* artifact as they were.
C22_UpsertTriageFrame ==
    last.op = "api_triage_save" =>
        LET f == last.args[2]
            oldj == IF OldArtifact.jira = None THEN EmptyJira ELSE OldArtifact.jira[1]
            newj == NewArtifact.jira[1]
        IN  /\ triage[last.id].kind = "dict"
            /\ NewArtifact.classification = Some(strip(f.classification))
            /\ NewArtifact.priority = Some(strip(f.priority))
            /\ newj.summary = Some(f.jira_summary)
            /\ newj.description = Some(f.jira_description)
            /\ newj.labels = Some(_labels_from_text(f.jira_labels))
            /\ NewArtifact.attachments = OldArtifact.attachments
            /\ NewArtifact.threadId = OldArtifact.threadId
            /\ last.args[1][last.id].kind = "dict" =>
                  NewArtifact.email_id = OldArtifact.email_id
            /\ newj.reporter_email = oldj.reporter_email
            /\ newj.subject = oldj.subject
            /\ newj.received_at = oldj.received_at
            /\ newj.snippet = oldj.snippet
            /\ \A id \in DOMAIN triage : id # last.id => triage[id] = last.args[1][id]

\* C22 witness: the artifact triage_one wrote for m1 (a question with an attachment)
\* was saved as a bug; the attachment and the reporter are still there, the labels
\* are the ones typed in.
C22_Witness ==
    /\ last.op = "api_triage_save"
    /\ last.id = "m1"
    /\ OldArtifact.classification = Some("question")
    /\ OldArtifact.attachments = Some(<<"a.png">>)
    /\ NewArtifact.classification = Some("bug")
    /\ NewArtifact.attachments = Some(<<"a.png">>)
    /\ NewArtifact.jira[1].reporter_email = Some(<<"a@x">>)
    /\ NewArtifact.jira[1].labels = Some(<<<<"u", "i">>, <<"b", "u", "g">>>>)

C24_DraftFallback ==
    (last.op = "api_process_jira_generate" /\ ~last.args[2].ok) =>
        LET d == Doc(last.id).jira_draft
            subject == strip_text(Mailbox[last.id].subject)
        IN  /\ d # None
            /\ d[1].summary = IF subject = <<>> THEN no_subject ELSE subject
            /\ d[1].labels = <<>>
            /\ d[1].issue_type_name = last.args[3]
            /\ d[1].generated_at = clock - 1
            /\ d[1].description = template_draft(Mailbox[last.id], PrevDoc(last.id)).description
            /\ Contains(d[1].description, <<"B", "o", "d", "y", ":">>)
            /\ Doc(last.id).status = PrevDoc(last.id).status
            /\ Doc(last.id).processed_at = PrevDoc(last.id).processed_at
            /\ Status(last.id) = PrevStatus(last.id)

\* C24 witness: the AI call failed on a transport error for the processed message
\* m2, whose subject is blank; the draft saved says "(no subject)" and the message
\* is still processed.
C24_Witness ==
    /\ last.op = "api_process_jira_generate"
    /\ last.id = "m2"
    /\ ~last.args[2].ok
    /\ last.args[2].why = "transport error"
    /\ PrevStatus("m2") = "processed"
    /\ PrevDoc("m2").jira_draft = None
    /\ Doc("m2").jira_draft[1].summary = no_subject
    /\ Status("m2") = "processed"

\* C30: _pick_next_email_id returns only messages whose normalized status is
\* pending, returns one whenever a message is pending, and with scope "candidate"
\* returns a pending candidate if there is one.
C30_WorkQueueSurfacesPending ==
    \A scope \in {"todo", "candidate"} :
        LET r == _pick_next_email_id(store, triage, scope)
            pend == {id \in DOMAIN store : Status(id) = "pending"}
            candp == {id \in pend : _is_candidate(load_triage_for_id(triage, id))}
        IN  /\ r # None => r[1] \in pend
            /\ pend # {} => r # None
            /\ (scope = "candidate" /\ candp # {}) => (r # None /\ r[1] \in candp)

\* C25: in a batch job 0 <= done <= total and the results recorded are done many,
\* one per item in order; an item whose triage fails is recorded with ok false and
\* its error, the items after it are still triaged, the artifacts written for the
\* items before it stay, and a finished job has done = total.
C25_BatchProgress ==
    job.pc # "none" =>
        /\ job.total = Len(job.email_ids)
        /\ 0 <= job.done /\ job.done <= job.total
        /\ Len(job.results) = job.done
        /\ job.pc = "finished" <=> job.done = job.total
        /\ \A i \in 1..Len(job.results) :
              LET res == job.results[i]
              IN  /\ res.email_id = job.email_ids[i]
                  /\ res.ok <=> Mailbox[res.email_id].kind = "ok"
                  /\ res.ok => /\ res.error = None
                               /\ triage[res.email_id].kind = "dict"
                               /\ res.triage = Some(triage[res.email_id].doc)
                  /\ ~res.ok => res.error # None /\ res.triage = None

\* C25 witness: a job over three messages has finished; the second, unreadable
\* one is recorded as failed, the first and third have their artifacts.
C25_Witness ==
    /\ job.pc = "finished"
    /\ job.total = 3
    /\ job.done = 3
    /\ job.results[1].ok
    /\ ~job.results[2].ok
    /\ job.results[2].email_id = "m3"
    /\ job.results[3].ok
    /\ triage["m1"].kind = "dict"
    /\ triage["m2"].kind = "dict"
    /\ triage["m1"].doc.classification = Some("question")

\* The first balanced {...} span of a text: from the first opening brace to the
\* first closing brace at which as many have closed as have opened.
first_balanced(t) ==
    LET start == find(t, "{")
        depth(j) == Cardinality({k \in start..j : t[k] = "{"})
                    - Cardinality({k \in start..j : t[k] = "}"})
        ends == {j \in start..Len(t) : start >= 1 /\ depth(j) = 0}
    IN  IF ends = {} THEN <<>>
        ELSE SubSeq(t, start, CHOOSE j \in ends : \A k \in ends : j <= k)

\* Some span of the text is a JSON object.
HasJsonObject(t) ==
    \E i \in 1..Len(t) : \E j \in i..Len(t) :
        t[i] = "{" /\ json_loads(SubSeq(t, i, j)).raised = "none"

\* C26: for a model output that holds a JSON object with text before or after
\* it, trailing text with braces included, _extract_json_from_text returns the
\* first balanced {...} object; for an output with no JSON object it raises
\* AiError and no other exception.
C26_ExtractFirstObject ==
    ai_out.pc = "parsed" =>
        LET span == first_balanced(ai_out.text)
        IN  /\ (span # <<>> /\ json_loads(span).raised = "none")
                  => ai_out.raised = "none" /\ ai_out.value = json_loads(span).value
            /\ ~HasJsonObject(ai_out.text) => ai_out.raised = "AiError"

\* C27: the error text raised for a failed AI request, an unexpected AI response
\* or a failed Jira create-issue holds no provider key and no Bearer token that
\* was in the response body.
C27_NoSecretInErrorText ==
    ai_out.raised \in {"AiError", "JiraError"} =>
        \A secret \in Secrets :
            Contains(ai_out.text, secret) => ~Contains(ai_out.error, secret)

\* The tickets create_issue_v2 has created for a message.
TicketsFor(id) == {i \in 1..Len(issues) : issues[i].id = id}

\* C28: for every schedule of submit requests for one message, two that both
\* read the status before either records its ticket included, create_issue_v2
\* creates at most one ticket for the message.
C28_AtMostOneTicket ==
    \A id \in DOMAIN store : Cardinality(TicketsFor(id)) <= 1

\* A submit request leaves its create step with no ticket created: create_issue_v2
\* raised, or answered without a key, or there were no settings to call it with.
SubmitFails(s) ==
    /\ req[s].pc = "create"
    /\ req'[s].pc # "create"
    /\ issues' = issues

\* C29: a submit request whose create-issue fails writes no Processing State: not
\* when it is accepted, not when the call fails, and it does not go on to
\* set_jira_link, so every state document is as it was and the submit can be made
\* again.
C29_FailedSubmitWritesNothing ==
    [][\A s \in Slots :
          /\ (req[s].pc = "idle" /\ req'[s].pc = "create") => store' = store
          /\ SubmitFails(s) => store' = store /\ req'[s] = IdleReq]_vars

\* C29 witness: the guarded handler called create_issue_v2 for a pending message,
\* no ticket came of it, the request is over and the store is as it was at the
\* start, the message still pending.
C29_Witness ==
    /\ last_call # None
    /\ last_call[1].handler = "api_process_jira"
    /\ issues = <<>>
    /\ \A s \in Slots : req[s].pc = "idle"
    /\ store = prev
    /\ Status(last_call[1].id) = "pending"
    /\ Doc(last_call[1].id).jira = None

\* C31: the fetch-and-parse job calls upsert_ai_result exactly once for each
\* message id the fetch reported, in fetch order: with decision ignore iff the AI
\* result is the no-action value, pending otherwise; when the message cannot be
\* loaded or analysed, with decision pending and the failure text as reason, and
\* the ids after it are still handled.
C31_OneAiCallPerFetchedId ==
    /\ fjob.pc # "done" => fjob.calls = <<>>
    /\ (fjob.kind = "fetch_parse" /\ fjob.pc = "done" /\ fjob.error = None) =>
          /\ fjob.fetched_ids = fjob.msg_ids
          /\ Len(fjob.calls) = Len(fjob.fetched_ids)
          /\ \A k \in 1..Len(fjob.calls) :
                LET c == fjob.calls[k]
                    failed == ~c.loaded \/ c.out.raised
                    no_action == c.out.result \in {Some(NO_ACTION), Some(" no action needed ")}
                IN  /\ c.id = fjob.fetched_ids[k]
                    /\ c.decision = "ignore" <=> (~failed /\ no_action)
                    /\ c.decision \in {"ignore", "pending"}
                    /\ failed => /\ c.decision = "pending"
                                 /\ c.reason \in {"AI parse failed: Email not found",
                                                   "AI parse failed: " \o c.out.error}
                    /\ Doc(c.id).ai # None
                    /\ (\A j \in (k + 1)..Len(fjob.calls) : fjob.calls[j].id # c.id)
                          => /\ Doc(c.id).ai[1].decision = c.decision
                             /\ Doc(c.id).ai[1].reason = c.reason

\* C31 witness: a finished job whose first message could not be analysed and was
\* stored pending with the failure text, and whose second was stored ignore.
C31_Witness ==
    /\ fjob.kind = "fetch_parse"
    /\ fjob.finished
    /\ fjob.error = None
    /\ Len(fjob.calls) = 2
    /\ fjob.calls[1].out.raised
    /\ fjob.calls[1].decision = "pending"
    /\ fjob.calls[2].decision = "ignore"
    /\ Status(fjob.calls[2].id) = "ignore"

\* C32: every started background job becomes finished in the end and stays
\* finished, the batch triage job and the fetch and fetch-and-parse jobs alike; a
\* fetch job that failed as a whole has its error recorded and is finished too.
C32_JobsFinish ==
    /\ (job.pc = "running") ~> (job.pc = "finished")
    /\ (fjob.kind # "none") ~> fjob.finished
    /\ [](fjob.error # None => fjob.finished)
    /\ [][(job.pc = "finished" => job'.pc = "finished")
           /\ (fjob.finished => fjob'.finished)]_vars

\* C32 witness: the batch job is finished, and a Gmail fetch job whose fetch_to_out
\* raised is finished with its error recorded.
C32_Witness ==
    /\ job.pc = "finished"
    /\ job.done = job.total
    /\ fjob.kind = "fetch"
    /\ fjob.finished
    /\ fjob.error # None

\* C33: a set_status call whose stripped status is none of the seven values the
\* branches test ("", an unknown word, another casing) leaves a document whose
\* status is pending, whatever the status was before, and the value given is
\* not what is stored.
StatusBranches == {"todo", "pending", "skip", "ignore", "done", "jira", "processed"}

C33_UnknownStatusStoresPending ==
    (last.op = "set_status" /\ strip(last.args[1]) \notin StatusBranches)
        => /\ store[last.id].kind = "dict"
           /\ store[last.id].doc.status = Some("pending")
           /\ store[last.id].doc.status # Some(last.args[1])

C33_Witness ==
    /\ last.op = "set_status"
    /\ last.args[1] \in {"Processed", "later"}
    /\ prev[last.id].kind = "dict"
    /\ prev[last.id].doc.status = Some("processed")
    /\ store[last.id].doc.status = Some("pending")
    /\ store[last.id].doc.processed_at # None
OneMessagePerStep ==
    [][\A a, b \in DOMAIN store :
          (store'[a] # store[a] \/ triage'[a] # triage[a])
              /\ (store'[b] # store[b] \/ triage'[b] # triage[b]) => a = b]_vars

C35_ReadOnlyWritesNothing ==
    [][READ_ONLY => (store' = store /\ triage' = triage /\ issues' = issues)]_vars

\* C36: for a session without gmail_authed no step writes a Triage Artifact or
\* a Processing State document, creates a ticket, or starts a batch, fetch or
\* fetch-and-parse job.
C36_LoginRequired ==
    [][~_require_gmail_login =>
          /\ store' = store /\ triage' = triage /\ issues' = issues
          /\ job.pc = "none" => job'.pc = "none"
          /\ fjob.kind = "none" => fjob'.kind = "none"]_vars
\* C37: the Jira MCP server has written one response for every non-blank line
\* it has read, in the order of the lines, each with the id of its request
\* (null when the line has no object with an id in it), and no line has ended
\* the loop with an exception.
RequestId ==
    [l \in {strip_text(x) : x \in McpLines} |->
        IF json_loads(l).raised = "none" /\ is_dict(json_loads(l).value)
        THEN dict_get(json_loads(l).value, <<"i", "d">>)
        ELSE None]

C37_EveryLineAnswered ==
    /\ mcp.pc # "crashed"
    /\ Len(mcp.out) = Len(mcp.seen)
    /\ \A n \in 1..Len(mcp.out) : mcp.out[n].id = RequestId[mcp.seen[n]]
====
